---- MODULE Spec2Model ----
(***************************************************************************)
(* A model of the Xiaolu-Workflow crawler service.                         *)
(*                                                                         *)
(*   - the crawl job supervisor of main.py: the CrawlerManager, the        *)
(*     FastAPI handlers that drive it and the job processes it forks;      *)
(*   - the Deduplicator of app/pipelines.py (DuplicationFilterPipeline)    *)
(*     with its shared Redis set and its process-local set;                *)
(*   - the RetryPolicy of app/middlewares.py (RetryMiddleware);            *)
(*   - the item pipeline of app/pipelines.py, with the items of            *)
(*     app/items.py, the media files and the rows of the database;         *)
(*   - the request path of app/middlewares.py from HeadersMiddleware on     *)
(*     (HeadersMiddleware, CookiesMiddleware, SeleniumMiddleware) and the   *)
(*     end of the job process that runs it;                                *)
(*   - extract_number of app/spiders/xiaohongshu_spider.py.                *)
(*                                                                         *)
(* The FastAPI handlers are "async def" functions that never await, so     *)
(* each one runs to completion on the event loop: concurrent calls are     *)
(* serialised and a handler is one action.  The exception is stop, whose   *)
(* process.join(timeout=10) blocks the event loop while the job process    *)
(* keeps running: it is two actions, with the supervisor blocked between.  *)
(***************************************************************************)
EXTENDS Integers, Sequences, FiniteSets, TLC

VARIABLES
    running_spiders,  \* CrawlerManager.running_spiders: spider name -> handle (pid)
    stats,            \* CrawlerManager.stats of the supervisor process
    procs,            \* the job processes forked so far: pid -> process
    sup_pc,           \* "idle", or "join" while stop_spider blocks in process.join
    stop_name,        \* the spider name stop_spider is working on
    resp,             \* the response of the last handler that returned
    redis_set,        \* members of the Redis set 'scrapy:seen_items'
    redis_ttl,        \* time-to-live of that key in ticks; NoTtl = no expiry set
    seen_items,       \* DuplicationFilterPipeline.seen_items of each job process
    dpc,              \* where each job process is inside process_item
    cur,              \* the record each job process is filtering
    outcome,          \* how each job process's last process_item ended
    age,              \* per natural key: ticks since its TTL window opened (NoAge = none open)
    admitted,         \* per natural key: admissions within its TTL window
    job_admitted,     \* the same, counted per job
    redis_failed,     \* some Redis call has raised so far
    submits,          \* records handed to the Deduplicator so far
    requests,         \* per request: where it is, the request scheduled, its outcome
    attempts,         \* per request: downloads of it so far
    pl_stage,         \* "closed", "idle", or the pipeline the record is about to enter
    pl_item,          \* the record in the pipeline
    pl_raw,           \* what the spider extracted for the last record it yielded
    pl_outcome,       \* how the trip of the last record ended
    dl,               \* where ImageDownloadPipeline.process_item is
    files,            \* the files under the download path: path -> "partial" or "complete"
    fetches,          \* per image url: requests.get calls, those that succeeded, files reused
    db,               \* the rows of the database, by natural key
    db_conn,          \* open_spider of DatabasePipeline got a connection
    clock,            \* CURRENT_TIMESTAMP of the database
    exported,         \* the lines of the job's export file
    pstats,           \* StatisticsPipeline.stats of the job
    yielded,          \* records yielded so far
    mw_pc,            \* "closed", "ready", the middleware the request is about to enter, ...
    mw_req,           \* the request on its way through the downloader middlewares
    mw_resp,          \* the response on its way back
    cookies,          \* CookiesMiddleware.cookies: netloc -> list of cookies
    selenium,         \* SeleniumMiddleware is among the job's downloader middlewares
    driver,           \* SeleniumMiddleware.driver
    job_stats,        \* CrawlerManager.stats of the job process, its copy
    sent,             \* requests handed to the downloader middlewares so far
    proxies,          \* ProxyMiddleware.proxies: the pool, a list
    px_pc,            \* where the ProxyMiddleware and its request are
    px_meta,          \* request.meta['proxy'] of the request at hand (NoProxy = not set)
    px_ret,           \* what the last hook of ProxyMiddleware returned
    px_failed,        \* the proxies a "proxy failed" warning was logged for
    px_sent,          \* requests handed to ProxyMiddleware so far
    ex_pc,            \* "idle", or "done" once extract_number has been called
    ex_text,          \* the text extract_number was called with
    ex_out            \* what the call returned or raised

supVars == <<running_spiders, stats, procs, sup_pc, stop_name, resp>>
dedupVars == <<redis_set, redis_ttl, seen_items, dpc, cur, outcome, age,
               admitted, job_admitted, redis_failed, submits>>
retryVars == <<requests, attempts>>
plVars == <<pl_stage, pl_item, pl_raw, pl_outcome, dl, files, fetches, db, db_conn,
            clock, exported, pstats, yielded>>
pxVars == <<proxies, px_pc, px_meta, px_ret, px_failed, px_sent>>
chainVars == <<mw_pc, mw_req, mw_resp, cookies, selenium, driver, job_stats, sent>>
mwVars == <<mw_pc, mw_req, mw_resp, cookies, selenium, driver, job_stats, sent,
            proxies, px_pc, px_meta, px_ret, px_failed, px_sent>>
exVars == <<ex_pc, ex_text, ex_out>>
vars == <<running_spiders, stats, procs, sup_pc, stop_name, resp,
          redis_set, redis_ttl, seen_items, dpc, cur, outcome, age, admitted,
          job_admitted, redis_failed, submits, requests, attempts,
          pl_stage, pl_item, pl_raw, pl_outcome, dl, files, fetches, db, db_conn,
          clock, exported, pstats, yielded,
          mw_pc, mw_req, mw_resp, cookies, selenium, driver, job_stats, sent,
          proxies, px_pc, px_meta, px_ret, px_failed, px_sent,
          ex_pc, ex_text, ex_out>>

----------------------------------------------------------------------------
(* Bounds of the model.                                                    *)

\* job processes the supervisor may fork in one behaviour
MaxProcs == 3

\* job processes that run an item pipeline side by side
NumJobs == 2

\* records handed to the Deduplicator in one behaviour
MaxSubmits == 3

\* the resolution of time: the TTL of the Redis key lasts this many ticks
TtlTicks == 2

\* requests a spider yields in one behaviour
MaxRequests == 2

\* records a spider yields in one behaviour
MaxItems == 2

\* requests one job hands to its downloader middlewares in one behaviour
MaxSent == 2

\* requests one job hands to its ProxyMiddleware in one behaviour
MaxProxied == 3

----------------------------------------------------------------------------
(* The supervisor: main.py                                                 *)

\* spider names a caller may pass; only the first is supported (main.py:215)
SpiderNames == {"xiaohongshu", "other"}

\* max_pages values a caller may pass: below, inside and above 1..100
MaxPagesInputs == {0, 10, 101}

NoPid == 0

\* CrawlerManager.__init__: self.stats
InitStats ==
    [total_runs |-> 0, successful_runs |-> 0, failed_runs |-> 0,
     last_run_time |-> "None", last_run_status |-> "None"]

\* run_spider whose except branch counts the run but not the failure
RunSpiderUncountedFailure(st, ok) ==
    IF ok
    THEN [st EXCEPT !.total_runs = @ + 1,
                    !.successful_runs = @ + 1,
                    !.last_run_time = "iso",
                    !.last_run_status = "success"]
    ELSE [st EXCEPT !.total_runs = @ + 1,
                    !.last_run_time = "iso",
                    !.last_run_status = "failed"]

\* run_spider's bookkeeping after process.start() returned (ok) or raised
RunSpider(st, ok) ==
    IF ok
    THEN [st EXCEPT !.total_runs = @ + 1,
                    !.successful_runs = @ + 1,
                    !.last_run_time = "iso",
                    !.last_run_status = "success"]
    ELSE [st EXCEPT !.total_runs = @ + 1,
                    !.failed_runs = @ + 1,
                    !.last_run_time = "iso",
                    !.last_run_status = "failed"]

\* a handle that counts as alive from the fork on
IsAliveOnceStarted(pid) == TRUE

\* process.is_alive() of a handle
IsAlive(pid) == procs[pid].alive

\* the response of a handler, one shape for all of them
Response(op, name, code, detail) ==
    [op |-> op, spider |-> name, code |-> code, detail |-> detail,
     running |-> FALSE, pid |-> NoPid, running_spiders |-> {},
     running_count |-> 0, stats |-> InitStats]

NoResponse == Response("none", "none", 0, "none")

\* start_spider's first check: a tracked handle that is alive (main.py:209-212)
SpiderAlreadyRunningNoCheck(name) == FALSE

SpiderAlreadyRunning(name) ==
    /\ name \in DOMAIN running_spiders
    /\ IsAlive(running_spiders[name])

\* start_spider's parameter checks (main.py:215-219)
StartParamError(name, max_pages) ==
    IF name # "xiaohongshu" THEN "Unsupported"
    ELSE IF max_pages <= 0 \/ max_pages > 100 THEN "InvalidParams"
    ELSE "ok"

\* the process object mp.Process(target=_run) forks: a copy of the manager
NewProcess(name) ==
    [name |-> name, alive |-> TRUE, sigterm |-> FALSE, ended |-> "none",
     stats |-> stats]

NextPid == Cardinality(DOMAIN procs) + 1

\* run_spider_async with the handle recorded before the process is started
RunSpiderAsyncRecordFirst(name, spawn_ok) ==
    /\ NextPid <= MaxProcs
    /\ procs' = procs @@ (NextPid :> [NewProcess(name) EXCEPT !.alive = spawn_ok])
    /\ running_spiders' =
           [n \in DOMAIN running_spiders \cup {name} |->
               IF n = name THEN NextPid ELSE running_spiders[n]]
    /\ resp' = IF spawn_ok
               THEN [Response("start", name, 200, "started") EXCEPT !.pid = NextPid]
               ELSE Response("start", name, 500, "SpawnFailed")

\* run_spider_async, and start_spider's answer to it: process.start() forks
\* the job and only then is the handle recorded; if the fork raises, the
\* handler's "except Exception" answers 500 and nothing was recorded
RunSpiderAsync(name, spawn_ok) ==
    IF spawn_ok
    THEN /\ NextPid <= MaxProcs
         /\ procs' = procs @@ (NextPid :> NewProcess(name))
         /\ running_spiders' =
                [n \in DOMAIN running_spiders \cup {name} |->
                    IF n = name THEN NextPid ELSE running_spiders[n]]
         /\ resp' = [Response("start", name, 200, "started") EXCEPT !.pid = NextPid]
    ELSE /\ resp' = Response("start", name, 500, "SpawnFailed")
         /\ UNCHANGED <<procs, running_spiders>>

\* POST /spiders/{spider_name}/start
StartSpider(name, max_pages, spawn_ok) ==
    /\ sup_pc = "idle"
    /\ IF SpiderAlreadyRunning(name)
       THEN /\ resp' = Response("start", name, 400, "AlreadyRunning")
            /\ UNCHANGED <<procs, running_spiders>>
       ELSE IF StartParamError(name, max_pages) # "ok"
       THEN /\ resp' = Response("start", name, 400, StartParamError(name, max_pages))
            /\ UNCHANGED <<procs, running_spiders>>
       ELSE RunSpiderAsync(name, spawn_ok)
    /\ UNCHANGED <<stats, sup_pc, stop_name>>
    /\ UNCHANGED <<dedupVars, retryVars, plVars, mwVars, exVars>>

\* stop_spider's test of its target: tracked and alive (main.py:104-106)
StopTargetAlive(name) ==
    /\ name \in DOMAIN running_spiders
    /\ IsAlive(running_spiders[name])

\* process.terminate(): SIGTERM is delivered to the job process
Terminate(p) == [p EXCEPT !.sigterm = TRUE]

\* stop_spider that forgets a handle it finds dead
StopSpiderBeginDropStale(name) ==
    /\ sup_pc = "idle"
    /\ IF StopTargetAlive(name)
       THEN /\ procs' = [procs EXCEPT ![running_spiders[name]] = Terminate(@)]
            /\ sup_pc' = "join"
            /\ stop_name' = name
            /\ UNCHANGED <<running_spiders, resp>>
       ELSE /\ resp' = Response("stop", name, 404, "NotRunning")
            /\ running_spiders' =
                   [n \in DOMAIN running_spiders \ {name} |-> running_spiders[n]]
            /\ UNCHANGED <<procs, sup_pc, stop_name>>
    /\ UNCHANGED stats
    /\ UNCHANGED <<dedupVars, retryVars, plVars, mwVars, exVars>>

\* POST /spiders/{spider_name}/stop, up to the blocking join: a live target
\* gets SIGTERM and the handler blocks in process.join(timeout=10); any
\* other target makes stop_spider return False, which the handler answers
\* with 404
StopSpiderBegin(name) ==
    /\ sup_pc = "idle"
    /\ IF StopTargetAlive(name)
       THEN /\ procs' = [procs EXCEPT ![running_spiders[name]] = Terminate(@)]
            /\ sup_pc' = "join"
            /\ stop_name' = name
            /\ UNCHANGED <<running_spiders, resp>>
       ELSE /\ resp' = Response("stop", name, 404, "NotRunning")
            /\ UNCHANGED <<procs, running_spiders, sup_pc, stop_name>>
    /\ UNCHANGED stats
    /\ UNCHANGED <<dedupVars, retryVars, plVars, mwVars, exVars>>

\* stop_spider without the escalation
EscalateNever(p) == p

\* after the join: "if process.is_alive(): process.kill()"
Escalate(p) ==
    IF p.alive THEN [p EXCEPT !.alive = FALSE, !.ended = "killed"] ELSE p

\* the rest of stop_spider, once join returned (the job exited, or the
\* timeout passed with the job still alive): escalate, forget the handle,
\* answer 200
StopSpiderFinish ==
    /\ sup_pc = "join"
    /\ procs' = [procs EXCEPT ![running_spiders[stop_name]] = Escalate(@)]
    /\ running_spiders' =
           [n \in DOMAIN running_spiders \ {stop_name} |-> running_spiders[n]]
    /\ resp' = Response("stop", stop_name, 200, "stopped")
    /\ sup_pc' = "idle"
    /\ stop_name' = "none"
    /\ UNCHANGED stats
    /\ UNCHANGED <<dedupVars, retryVars, plVars, mwVars, exVars>>

\* get_spider_status's is_running without the liveness test
IsRunningTrackedOnly(name) == name \in DOMAIN running_spiders

\* get_spider_status(name): is_running (main.py:120-121)
IsRunning(name) ==
    /\ name \in DOMAIN running_spiders
    /\ IsAlive(running_spiders[name])

\* GET /spiders/{spider_name}/status
GetSpiderStatus(name) ==
    /\ sup_pc = "idle"
    /\ resp' = [Response("status", name, 200, "ok") EXCEPT
                   !.running = IsRunning(name),
                   !.pid = IF IsRunning(name) THEN running_spiders[name] ELSE NoPid]
    /\ UNCHANGED <<running_spiders, stats, procs, sup_pc, stop_name>>
    /\ UNCHANGED <<dedupVars, retryVars, plVars, mwVars, exVars>>

\* GET /spiders/status: get_spider_status() without a name
GetAllSpidersStatus ==
    /\ sup_pc = "idle"
    /\ resp' = [Response("status_all", "none", 200, "ok") EXCEPT
                   !.running_spiders = DOMAIN running_spiders,
                   !.stats = stats]
    /\ UNCHANGED <<running_spiders, stats, procs, sup_pc, stop_name>>
    /\ UNCHANGED <<dedupVars, retryVars, plVars, mwVars, exVars>>

\* GET /metrics: the "spiders" part of the answer
GetMetrics ==
    /\ sup_pc = "idle"
    /\ resp' = [Response("metrics", "none", 200, "ok") EXCEPT
                   !.running_count = Cardinality(DOMAIN running_spiders),
                   !.stats = stats]
    /\ UNCHANGED <<running_spiders, stats, procs, sup_pc, stop_name>>
    /\ UNCHANGED <<dedupVars, retryVars, plVars, mwVars, exVars>>

\* GET /health: checks.running_spiders
HealthCheck ==
    /\ sup_pc = "idle"
    /\ resp' = [Response("health", "none", 200, "ok") EXCEPT
                   !.running_count = Cardinality(DOMAIN running_spiders)]
    /\ UNCHANGED <<running_spiders, stats, procs, sup_pc, stop_name>>
    /\ UNCHANGED <<dedupVars, retryVars, plVars, mwVars, exVars>>

\* how a job that ran run_spider to its end is said to have ended
EndedAs(p, ok) ==
    IF p.sigterm THEN "stopped" ELSE IF ok THEN "completed" ELSE "failed"

\* the job process: _run calls run_spider on the process's own copy of the
\* manager, then the process exits.  process.start() of Scrapy returned
\* (ok) or raised (~ok); after a SIGTERM it returns once Scrapy has shut
\* down gracefully
JobFinish(pid, ok) ==
    /\ pid \in DOMAIN procs
    /\ procs[pid].alive
    /\ procs' = [procs EXCEPT ![pid] =
                    [@ EXCEPT !.alive = FALSE,
                              !.stats = RunSpider(procs[pid].stats, ok),
                              !.ended = EndedAs(procs[pid], ok)]]
    /\ UNCHANGED <<running_spiders, stats, sup_pc, stop_name, resp>>
    /\ UNCHANGED <<dedupVars, retryVars, plVars, mwVars, exVars>>

\* the job process dies of the SIGTERM before Scrapy's handlers are in place
JobTerminated(pid) ==
    /\ pid \in DOMAIN procs
    /\ procs[pid].alive
    /\ procs[pid].sigterm
    /\ procs' = [procs EXCEPT ![pid] = [@ EXCEPT !.alive = FALSE, !.ended = "stopped"]]
    /\ UNCHANGED <<running_spiders, stats, sup_pc, stop_name, resp>>
    /\ UNCHANGED <<dedupVars, retryVars, plVars, mwVars, exVars>>

SupNext ==
    \/ \E name \in SpiderNames, max_pages \in MaxPagesInputs, spawn_ok \in BOOLEAN :
           StartSpider(name, max_pages, spawn_ok)
    \/ \E name \in SpiderNames : StopSpiderBegin(name)
    \/ StopSpiderFinish
    \/ \E name \in SpiderNames : GetSpiderStatus(name)
    \/ GetAllSpidersStatus
    \/ GetMetrics
    \/ HealthCheck
    \/ \E pid \in DOMAIN procs, ok \in BOOLEAN : JobFinish(pid, ok)
    \/ \E pid \in DOMAIN procs : JobTerminated(pid)

----------------------------------------------------------------------------
(* The Deduplicator: app/pipelines.py, DuplicationFilterPipeline           *)

\* the job processes whose pipelines share the Redis set
Jobs == 1 .. NumJobs

\* the TTL of 'scrapy:seen_items' in seconds, and the seconds in a tick
TTL_SECONDS == 7 * 24 * 3600
TickSeconds == TTL_SECONDS \div TtlTicks

\* TTL of a key that has no expiry set
NoTtl == -1

\* the age of a natural key whose TTL window is not open
NoAge == NoTtl

\* items, as the fields that are set on them: the records a spider may
\* hand to the pipeline that the Validator lets through
NoteItem(note_id) ==
    [cls |-> "Note",
     fields |-> [note_id |-> note_id, url |-> "https://x/" \o note_id, title |-> "t"]]

UserItem(user_id) ==
    [cls |-> "User",
     fields |-> [user_id |-> user_id, username |-> "u", profile_url |-> "https://x/u"]]

CommentItem(comment_id, note_id, user_id) ==
    [cls |-> "Comment",
     fields |-> [comment_id |-> comment_id, note_id |-> note_id,
                 content |-> "c", user_id |-> user_id]]

Items == {NoteItem("n1"), NoteItem("n2"), UserItem("u1"), CommentItem("c1", "n1", "u1")}

NoItem == [cls |-> "none", fields |-> <<>>]

\* hashlib.md5(url.encode()).hexdigest(): a digest that stands for the url
Md5(url) == <<"md5", url>>

\* _generate_item_id: the first of note_id, user_id, comment_id that is set
\* on the item, else the digest of its url ('' when url is not set)
GenerateItemId(fields) ==
    IF "note_id" \in DOMAIN fields THEN <<"note", fields.note_id>>
    ELSE IF "user_id" \in DOMAIN fields THEN <<"user", fields.user_id>>
    ELSE IF "comment_id" \in DOMAIN fields THEN <<"comment", fields.comment_id>>
    ELSE <<"url", Md5(IF "url" \in DOMAIN fields THEN fields.url ELSE "")>>

\* the natural key of a record: the identifier of its variant
NaturalKey(item) ==
    CASE item.cls = "Note" -> <<"note", item.fields.note_id>>
      [] item.cls = "User" -> <<"user", item.fields.user_id>>
      [] item.cls = "Comment" -> <<"comment", item.fields.comment_id>>

NaturalKeys == {NaturalKey(i) : i \in Items}

\* _is_duplicate: SISMEMBER on Redis; if the call raises (or no client was
\* built), membership in the process's own set
IsDuplicate(p, item_id, redis_ok) ==
    IF redis_ok THEN item_id \in redis_set ELSE item_id \in seen_items[p]

\* the end of process_item for a record that was not dropped:
\* self.seen_items.add(item_id), return item
Admit(p) ==
    LET nk == NaturalKey(cur[p])
    IN  /\ seen_items' = [seen_items EXCEPT ![p] = @ \cup {GenerateItemId(cur[p].fields)}]
        /\ admitted' = [admitted EXCEPT ![nk] = @ + 1]
        /\ job_admitted' = [job_admitted EXCEPT ![p][nk] = @ + 1]
        /\ age' = [age EXCEPT ![nk] = IF @ = NoAge THEN 0 ELSE @]
        /\ outcome' = [outcome EXCEPT ![p] = "admitted"]
        /\ dpc' = [dpc EXCEPT ![p] = "idle"]
        /\ cur' = [cur EXCEPT ![p] = NoItem]

\* process_item up to the answer of _is_duplicate: a duplicate is dropped
\* (DropItem), anything else goes on to _mark_as_seen
ProcessItem(p, item, redis_ok) ==
    /\ dpc[p] = "idle"
    /\ submits < MaxSubmits
    /\ submits' = submits + 1
    /\ redis_failed' = (redis_failed \/ ~redis_ok)
    /\ IF IsDuplicate(p, GenerateItemId(item.fields), redis_ok)
       THEN /\ outcome' = [outcome EXCEPT ![p] = "duplicate"]
            /\ UNCHANGED <<dpc, cur>>
       ELSE /\ dpc' = [dpc EXCEPT ![p] = "sadd"]
            /\ cur' = [cur EXCEPT ![p] = item]
            /\ outcome' = [outcome EXCEPT ![p] = "none"]
    /\ UNCHANGED <<redis_set, redis_ttl, seen_items, age, admitted, job_admitted>>
    /\ UNCHANGED <<supVars, retryVars, plVars, mwVars, exVars>>

\* _mark_as_seen, the SADD: if it raises, EXPIRE is skipped and the key
\* goes to the process's own set only
MarkSadd(p, redis_ok) ==
    /\ dpc[p] = "sadd"
    /\ redis_failed' = (redis_failed \/ ~redis_ok)
    /\ IF redis_ok
       THEN /\ redis_set' = redis_set \cup {GenerateItemId(cur[p].fields)}
            /\ dpc' = [dpc EXCEPT ![p] = "expire"]
            /\ UNCHANGED <<seen_items, admitted, job_admitted, age, outcome, cur>>
       ELSE /\ Admit(p)
            /\ UNCHANGED redis_set
    /\ UNCHANGED <<redis_ttl, submits>>
    /\ UNCHANGED <<supVars, retryVars, plVars, mwVars, exVars>>

\* _mark_as_seen, the EXPIRE of the whole set (a key that is gone stays
\* gone), then the process's own set
MarkExpire(p, redis_ok) ==
    /\ dpc[p] = "expire"
    /\ redis_failed' = (redis_failed \/ ~redis_ok)
    /\ redis_ttl' = IF redis_ok /\ redis_set # {} THEN TtlTicks ELSE redis_ttl
    /\ Admit(p)
    /\ UNCHANGED <<redis_set, submits>>
    /\ UNCHANGED <<supVars, retryVars, plVars, mwVars, exVars>>

\* a job ends and another begins in its place: a new pipeline object, whose
\* seen_items is empty (__init__)
OpenSpider(p) ==
    /\ dpc[p] = "idle"
    /\ seen_items[p] # {}
    /\ seen_items' = [seen_items EXCEPT ![p] = {}]
    /\ outcome' = [outcome EXCEPT ![p] = "none"]
    /\ job_admitted' = [job_admitted EXCEPT ![p] = [nk \in NaturalKeys |-> 0]]
    /\ UNCHANGED <<redis_set, redis_ttl, dpc, cur, age, admitted, redis_failed, submits>>
    /\ UNCHANGED <<supVars, retryVars, plVars, mwVars, exVars>>

\* a tick of time passes: Redis deletes the set when its time-to-live runs
\* out, and the TTL window of a natural key closes TtlTicks after it opened
Tick ==
    /\ \/ redis_ttl # NoTtl
       \/ \E nk \in NaturalKeys : age[nk] # NoAge
    /\ redis_ttl' = IF redis_ttl = NoTtl \/ redis_ttl = 1 THEN NoTtl ELSE redis_ttl - 1
    /\ redis_set' = IF redis_ttl = 1 THEN {} ELSE redis_set
    /\ age' = [nk \in NaturalKeys |->
                  IF age[nk] = NoAge \/ age[nk] + 1 >= TtlTicks THEN NoAge ELSE age[nk] + 1]
    /\ admitted' = [nk \in NaturalKeys |->
                       IF age[nk] = NoAge \/ age[nk] + 1 >= TtlTicks THEN 0 ELSE admitted[nk]]
    /\ job_admitted' = [p \in Jobs |-> [nk \in NaturalKeys |->
                           IF age[nk] = NoAge \/ age[nk] + 1 >= TtlTicks
                           THEN 0 ELSE job_admitted[p][nk]]]
    /\ UNCHANGED <<seen_items, dpc, cur, outcome, redis_failed, submits>>
    /\ UNCHANGED <<supVars, retryVars, plVars, mwVars, exVars>>

DedupNext ==
    \/ \E p \in Jobs, item \in Items, redis_ok \in BOOLEAN : ProcessItem(p, item, redis_ok)
    \/ \E p \in Jobs, redis_ok \in BOOLEAN : MarkSadd(p, redis_ok)
    \/ \E p \in Jobs, redis_ok \in BOOLEAN : MarkExpire(p, redis_ok)
    \/ \E p \in Jobs : OpenSpider(p)
    \/ Tick

----------------------------------------------------------------------------
(* The RetryPolicy: app/middlewares.py, RetryMiddleware                    *)
(*                                                                         *)
(* The class extends Scrapy's RetryMiddleware and overrides                *)
(* process_response, process_exception and adds _is_invalid_response; the  *)
(* reissue itself, _retry, is the one it inherits.  A request is a record  *)
(* of the two things the policy reads and writes: meta['retry_times'] and  *)
(* priority.  A text is a sequence of characters, a body is a text         *)
(* followed by pad bytes of filler that hold no signature.                 *)

ReqIds == 1 .. MaxRequests

\* settings.py: RETRY_TIMES, RETRY_HTTP_CODES, RETRY_PRIORITY_ADJUST
RETRY_TIMES == 3

RETRY_HTTP_CODES == {500, 502, 503, 504, 522, 524, 408, 429}

RETRY_PRIORITY_ADJUST == -1

\* RetryMiddleware.__init__: the three settings it reads
MaxRetryTimes == RETRY_TIMES

RetryHttpCodes == RETRY_HTTP_CODES

PriorityAdjust == RETRY_PRIORITY_ADJUST

\* _is_invalid_response: a body of fewer bytes than this is invalid
MinBodyLen == 100

\* _is_invalid_response: error_indicators; a Chinese character is written
\* as its code point
ErrorIndicators ==
    { <<"a", "c", "c", "e", "s", "s", " ", "d", "e", "n", "i", "e", "d">>,
      <<"b", "l", "o", "c", "k", "e", "d">>,
      <<"U+8BBF", "U+95EE", "U+88AB", "U+62D2", "U+7EDD">>,
      <<"U+7CFB", "U+7EDF", "U+7E41", "U+5FD9">>,
      <<"t", "o", "o", " ", "m", "a", "n", "y", " ", "r", "e", "q", "u", "e", "s", "t", "s">> }

\* str.lower() on the letters of the alphabet; other characters stay
UpperToLower ==
    ("A" :> "a" @@ "B" :> "b" @@ "C" :> "c" @@ "D" :> "d" @@ "E" :> "e" @@
     "F" :> "f" @@ "G" :> "g" @@ "H" :> "h" @@ "I" :> "i" @@ "J" :> "j" @@
     "K" :> "k" @@ "L" :> "l" @@ "M" :> "m" @@ "N" :> "n" @@ "O" :> "o" @@
     "P" :> "p" @@ "Q" :> "q" @@ "R" :> "r" @@ "S" :> "s" @@ "T" :> "t" @@
     "U" :> "u" @@ "V" :> "v" @@ "W" :> "w" @@ "X" :> "x" @@ "Y" :> "y" @@
     "Z" :> "z")

Lower(text) ==
    [i \in 1 .. Len(text) |->
        IF text[i] \in DOMAIN UpperToLower THEN UpperToLower[text[i]] ELSE text[i]]

\* indicator in body_text
Contains(text, indicator) ==
    \E i \in 1 .. (Len(text) - Len(indicator) + 1) :
        SubSeq(text, i, i + Len(indicator) - 1) = indicator

\* the bytes a character takes in the body: three for a Chinese character
\* of the indicators, one for the others
CharBytes(c) ==
    IF c \in {"U+8BBF", "U+95EE", "U+88AB", "U+62D2", "U+7EDD", "U+7CFB", "U+7EDF", "U+7E41", "U+5FD9"} THEN 3 ELSE 1

RECURSIVE TextBytes(_)
TextBytes(text) ==
    IF text = <<>> THEN 0 ELSE CharBytes(Head(text)) + TextBytes(Tail(text))

\* len(response.body)
BodyLen(response) == TextBytes(response.text) + response.pad

\* a response: is_text says whether it is a TextResponse, the only kind
\* that has .text
HttpResponse(status, text, pad, is_text) ==
    [status |-> status, text |-> text, pad |-> pad, is_text |-> is_text]

\* the page texts of the model: a page, a word short of an indicator, an
\* indicator in mixed case, a Chinese indicator
Page == <<"<", "h", "t", "m", "l", ">">>

NearMiss == <<"b", "l", "o", "c", "k">>

MixedCase == <<"B", "l", "o", "c", "k", "e", "d">>

Busy == <<"U+7CFB", "U+7EDF", "U+7E41", "U+5FD9">>

\* the responses the downloader may hand to the policy: bodies of 99 and
\* of 100 bytes and more, with and without an indicator, with a retryable
\* and a final status, as text and not
Responses ==
    { HttpResponse(200, Page, 94, TRUE),
      HttpResponse(200, Page, 93, TRUE),
      HttpResponse(200, NearMiss, 95, TRUE),
      HttpResponse(200, MixedCase, 94, TRUE),
      HttpResponse(200, Busy, 94, TRUE),
      HttpResponse(404, Page, 94, TRUE),
      HttpResponse(503, Page, 94, TRUE),
      HttpResponse(200, Page, 94, FALSE),
      HttpResponse(200, Page, 0, FALSE) }

\* the exceptions the downloader may raise, and EXCEPTIONS_TO_RETRY, the
\* tuple of exception types the class inherits
ExceptionTypes == {"TimeoutError", "ConnectionRefusedError", "ValueError"}

EXCEPTIONS_TO_RETRY ==
    {"TimeoutError", "DNSLookupError", "ConnectionRefusedError", "ConnectionDone",
     "ConnectError", "ConnectionLost", "TCPTimedOutError", "ResponseFailed",
     "IOError", "TunnelError"}

\* the request a spider yields: meta['retry_times'] is 0 or not set, and
\* the priority is the default
NewRequest == [kind |-> "request", retry_times |-> 0, priority |-> 0]

NoRequest == [kind |-> "none"]

\* what a hook hands back other than a request
Passed(response) == [kind |-> "response", response |-> response]

Raised(exception) == [kind |-> "error", exception |-> exception]

\* _is_invalid_response: "True", "False", or the AttributeError that
\* response.text raises on a response that is not a TextResponse
IsInvalidResponse(response) ==
    IF BodyLen(response) < MinBodyLen THEN "True"
    ELSE IF ~response.is_text THEN "AttributeError"
    ELSE IF \E indicator \in ErrorIndicators : Contains(Lower(response.text), indicator)
         THEN "True"
         ELSE "False"

\* _retry, inherited: a copy of the request with retry_times one higher and
\* the priority adjusted while retry_times is within max_retry_times, else
\* None
Retry(request) ==
    LET retry_times == request.retry_times + 1
    IN  IF retry_times <= MaxRetryTimes
        THEN [kind |-> "request", retry_times |-> retry_times,
              priority |-> request.priority + PriorityAdjust]
        ELSE NoRequest

\* self._retry(request, reason, spider) or response
RetryOr(request, response) ==
    IF Retry(request) # NoRequest THEN Retry(request) ELSE Passed(response)

\* process_response reissuing on a retryable status without the cap of _retry
ProcessResponseNoCap(request, response) ==
    IF response.status \in RetryHttpCodes
    THEN [kind |-> "request", retry_times |-> request.retry_times + 1,
          priority |-> request.priority + PriorityAdjust]
    ELSE CASE IsInvalidResponse(response) = "True" -> RetryOr(request, response)
           [] IsInvalidResponse(response) = "AttributeError" -> Raised("AttributeError")
           [] OTHER -> Passed(response)

\* process_response
ProcessResponse(request, response) ==
    IF response.status \in RetryHttpCodes
    THEN RetryOr(request, response)
    ELSE CASE IsInvalidResponse(response) = "True" -> RetryOr(request, response)
           [] IsInvalidResponse(response) = "AttributeError" -> Raised("AttributeError")
           [] OTHER -> Passed(response)

\* process_exception handing back the request as it is
ProcessExceptionSameRequest(request, exception) ==
    IF exception \in EXCEPTIONS_TO_RETRY THEN request ELSE NoRequest

\* process_exception: a request to reissue, or None and the exception goes on
ProcessException(request, exception) ==
    IF exception \in EXCEPTIONS_TO_RETRY THEN Retry(request) ELSE NoRequest

NoOutcome == [kind |-> "none"]

\* a spider yields a request and the engine schedules it
Schedule(id) ==
    /\ requests[id].state = "unsent"
    /\ requests' = [requests EXCEPT ![id] =
                       [state |-> "scheduled", request |-> NewRequest, outcome |-> NoOutcome]]
    /\ UNCHANGED attempts
    /\ UNCHANGED <<supVars, dedupVars, plVars, mwVars, exVars>>

\* what the engine does with the answer of a hook: a request is scheduled
\* in place of the one it replaces, anything else is the request's outcome
Settle(id, result) ==
    /\ requests' = [requests EXCEPT ![id] =
                       IF result.kind = "request"
                       THEN [@ EXCEPT !.request = result]
                       ELSE [@ EXCEPT !.state = "done", !.outcome = result]]
    /\ attempts' = [attempts EXCEPT ![id] = @ + 1]

\* the downloader answers a scheduled request with a response
Download(id, response) ==
    /\ requests[id].state = "scheduled"
    /\ Settle(id, ProcessResponse(requests[id].request, response))
    /\ UNCHANGED <<supVars, dedupVars, plVars, mwVars, exVars>>

\* the download of a scheduled request raises
DownloadFails(id, exception) ==
    /\ requests[id].state = "scheduled"
    /\ LET result == ProcessException(requests[id].request, exception)
       IN  Settle(id, IF result = NoRequest THEN Raised(exception) ELSE result)
    /\ UNCHANGED <<supVars, dedupVars, plVars, mwVars, exVars>>

\* one download of a request, whatever its answer
Attempt(id) ==
    \/ \E response \in Responses : Download(id, response)
    \/ \E exception \in ExceptionTypes : DownloadFails(id, exception)

RetryNext ==
    \/ \E id \in ReqIds : Schedule(id)
    \/ \E id \in ReqIds, response \in Responses : Download(id, response)
    \/ \E id \in ReqIds, exception \in ExceptionTypes : DownloadFails(id, exception)

----------------------------------------------------------------------------
(* The item pipeline: app/pipelines.py and app/items.py                    *)
(*                                                                         *)
(* One job process carries a record through the pipelines of               *)
(* ITEM_PIPELINES, one after the other; every process_item is synchronous, *)
(* so the records of a job do not overtake each other.  The job may be     *)
(* killed between any two steps.  A str value is a text: a prefix of what  *)
(* the spider extracted (as extracted, or with its whitespace normalised)  *)
(* followed by truncation markers.  A url is what urlparse makes of it.    *)

\* ITEM_PIPELINES with the export file given the priority of the database
\* and the database that of the export file
ItemPipelinesExportFirst ==
    <<"validation", "duplication", "image", "json", "database", "statistics">>

\* the pipelines in the order of their ITEM_PIPELINES priorities
ItemPipelines == <<"validation", "duplication", "image", "database", "json", "statistics">>

\* the pipeline an item is handed to when process_item of a pipeline
\* returns it, "done" after the last one
NextPipeline(stage) ==
    LET i == CHOOSE k \in DOMAIN ItemPipelines : ItemPipelines[k] = stage
    IN  IF i = Len(ItemPipelines) THEN "done" ELSE ItemPipelines[i + 1]

\* the job process of the pipeline, among those that share the Redis set
PipelineJob == 1

\* the strings a spider may extract: their length, and their length once
\* runs of whitespace are collapsed and the ends stripped
RawLen(id) ==
    CASE id = "empty" -> 0
      [] id = "blank" -> 2
      [] id = "short" -> 20
      [] id = "spaced" -> 30
      [] id = "long" -> 20000
      [] id = "huge" -> 60000

NormLen(id) ==
    CASE id = "empty" -> 0
      [] id = "blank" -> 0
      [] id = "short" -> 20
      [] id = "spaced" -> 25
      [] id = "long" -> 20000
      [] id = "huge" -> 60000

Text(id) == [id |-> id, form |-> "raw", kept |-> RawLen(id), marks |-> 0]

EmptyText == Text("empty")

\* the truncation marker "..."
Marker == <<".", ".", ".">>

\* len(text)
TextLen(text) == text.kept + Len(Marker) * text.marks

\* text[:n]; no text of the model is cut inside a marker
Prefix(text, n) ==
    IF n >= TextLen(text) THEN text
    ELSE IF n = 0 THEN EmptyText
    ELSE [text EXCEPT !.kept = n, !.marks = 0]

\* text + "..."
AddMarker(text) == [text EXCEPT !.marks = @ + 1]

\* ' '.join(text.split()).strip(): another string unless the text has no
\* whitespace to collapse
Normalize(text) ==
    IF text = Text(text.id) /\ NormLen(text.id) # RawLen(text.id)
    THEN IF NormLen(text.id) = 0 THEN EmptyText
         ELSE [text EXCEPT !.form = "norm", !.kept = NormLen(text.id)]
    ELSE text

\* the limits of _clean_text and of ValidationPipeline.process_item
MaxTextLen == 10000

MaxContentLen == 50000

\* XiaohongshuNoteItem._clean_text
CleanText(text) ==
    IF TextLen(text) = 0 THEN EmptyText
    ELSE IF TextLen(Normalize(text)) > MaxTextLen
         THEN AddMarker(Prefix(Normalize(text), MaxTextLen))
         ELSE Normalize(text)

\* urls, as urlparse splits them; the path is a sequence of characters
Url(scheme, netloc, path) == [scheme |-> scheme, netloc |-> netloc, path |-> path]

EmptyUrl == Url("", "", <<>>)

BadUrl == Url("", "", <<"n", "o", "p", "e">>)

PageUrl(id) == Url("https", "www.xiaohongshu.com", <<"/", id>>)

\* the image urls of the model: one with an extension in upper case, one
\* without an extension
U1 == Url("https", "img.example", <<"/", "a", ".", "J", "P", "E", "G">>)

U2 == Url("https", "img.example", <<"/", "b">>)

\* the fields declared on each item class
DeclaredFields(cls) ==
    CASE cls = "Note" ->
            {"note_id", "url", "title", "content", "keyword", "author_name",
             "author_id", "author_avatar", "likes_count", "comments_count",
             "shares_count", "images", "video_url", "tags", "category",
             "publish_time", "crawl_time", "note_type", "location", "topics",
             "quality_score", "is_featured"}
      [] cls = "User" ->
            {"user_id", "username", "nickname", "avatar_url", "profile_url",
             "bio", "gender", "location", "age", "followers_count",
             "following_count", "notes_count", "likes_received", "is_verified",
             "verification_type", "join_time", "last_active", "crawl_time"}
      [] cls = "Comment" ->
            {"comment_id", "note_id", "content", "user_id", "username",
             "user_avatar", "likes_count", "reply_count", "publish_time",
             "crawl_time", "is_author_reply", "parent_comment_id"}

\* bool(value) of the value of a field
Truthy(key, value) ==
    CASE key \in {"title", "content", "username"} -> TextLen(value) > 0
      [] key \in {"url", "profile_url", "avatar_url", "author_avatar", "video_url"} ->
            value # EmptyUrl
      [] key \in {"images", "local_images"} -> value # <<>>
      [] key = "likes_count" -> value # 0
      [] OTHER -> value # ""

\* item.get(key) is set and true
HasValue(fields, key) == key \in DOMAIN fields /\ Truthy(key, fields[key])

\* XiaohongshuNoteItem.__setitem__: the value that is stored
NoteValue(key, value) ==
    CASE key \in {"title", "content", "author_name"} /\ Truthy(key, value) -> CleanText(value)
      [] key = "images" /\ Truthy(key, value) -> SelectSeq(value, LAMBDA u : u # EmptyUrl)
      [] OTHER -> value

\* the value item[key] = value stores on an item of the class
StoredValue(cls, key, value) ==
    IF cls = "Note" THEN NoteValue(key, value) ELSE value

\* the item a spider builds from what it extracted, field by field
MakeItem(raw) ==
    [cls |-> raw.cls,
     fields |-> [key \in DOMAIN raw.fields |-> StoredValue(raw.cls, key, raw.fields[key])]]

\* what a spider may extract for a record: Notes (with a text that is
\* short, long or above both limits, with images, with a blank title, with
\* a malformed url), Users and Comments (complete, or with a field missing)
RawNote(note_id, url, title, content, likes_count, images) ==
    [cls |-> "Note",
     fields |-> [note_id |-> note_id, url |-> url, title |-> Text(title),
                 content |-> Text(content), likes_count |-> likes_count,
                 images |-> images]]

RawItems ==
    { RawNote("n1", PageUrl("n1"), "short", "short", 1, <<>>),
      RawNote("n1", PageUrl("n1"), "spaced", "long", 2, <<>>),
      RawNote("n2", PageUrl("n2"), "short", "huge", 0, <<>>),
      RawNote("n3", PageUrl("n3"), "short", "short", 0, <<U1, EmptyUrl, U2>>),
      RawNote("n4", PageUrl("n4"), "short", "short", 0, <<U1>>),
      RawNote("n5", PageUrl("n5"), "blank", "short", 0, <<>>),
      RawNote("n5", BadUrl, "short", "short", 0, <<>>),
      [cls |-> "User",
       fields |-> [user_id |-> "u1", username |-> Text("short"),
                   profile_url |-> PageUrl("u1")]],
      [cls |-> "User",
       fields |-> [user_id |-> "u1", username |-> Text("short")]],
      [cls |-> "Comment",
       fields |-> [comment_id |-> "c1", note_id |-> "n1", content |-> Text("huge"),
                   user_id |-> "u1"]],
      [cls |-> "Comment",
       fields |-> [comment_id |-> "c1", note_id |-> "n1", content |-> EmptyText,
                   user_id |-> "u1"]] }

\* validate() of the three item classes: required_fields
RequiredFields(cls) ==
    CASE cls = "Note" -> {"note_id", "url", "title"}
      [] cls = "User" -> {"user_id", "username", "profile_url"}
      [] cls = "Comment" -> {"comment_id", "note_id", "content", "user_id"}

\* validate() testing the identifiers only
ValidateIdsOnly(item) ==
    \A key \in RequiredFields(item.cls) \cap {"note_id", "user_id", "comment_id"} :
        HasValue(item.fields, key)

\* validate(): every required field is set and true
Validate(item) ==
    \A key \in RequiredFields(item.cls) : HasValue(item.fields, key)

\* ValidationPipeline._is_valid_url: all([result.scheme, result.netloc])
IsValidUrl(url) == url.scheme # "" /\ url.netloc # ""

\* adapter[key] = value on a declared field
SetField(item, key, value) ==
    [item EXCEPT !.fields =
        [k \in DOMAIN item.fields \cup {key} |->
            IF k = key THEN StoredValue(item.cls, key, value) ELSE item.fields[k]]]

\* the two ways a process_item ends: DropItem, or the item it returns
Drop(why) == [drop |-> TRUE, why |-> why]

Pass(item) == [drop |-> FALSE, item |-> item]

\* ValidationPipeline.process_item
ValidationProcessItem(item) ==
    IF ~Validate(item) THEN Drop("invalid")
    ELSE IF HasValue(item.fields, "url") /\ ~IsValidUrl(item.fields.url)
         THEN Drop("invalid url")
    ELSE IF /\ HasValue(item.fields, "content")
            /\ TextLen(item.fields.content) > MaxContentLen
         THEN Pass(SetField(item, "content",
                            AddMarker(Prefix(item.fields.content, MaxContentLen))))
    ELSE Pass(item)

\* ImageDownloadPipeline._get_image_extension: the first of the extensions
\* that occurs in the lowercased path, '.jpg' if none does
ImageExtensions ==
    << <<".", "j", "p", "g">>, <<".", "j", "p", "e", "g">>, <<".", "p", "n", "g">>,
       <<".", "g", "i", "f">>, <<".", "w", "e", "b", "p">> >>

GetImageExtension(url) ==
    LET found == {i \in DOMAIN ImageExtensions : Contains(Lower(url.path), ImageExtensions[i])}
    IN  IF found = {} THEN ImageExtensions[1]
        ELSE ImageExtensions[CHOOSE i \in found : \A j \in found : i <= j]

\* _download_image: filepath, the md5 of the url and the extension
Filepath(url) == <<Md5(url), GetImageExtension(url)>>

\* _download_image without the test for the file
PathExistsNever(filepath) == FALSE

\* os.path.exists(filepath)
PathExists(filepath) == filepath \in DOMAIN files

\* the position of process_item of ImageDownloadPipeline: the index of the
\* image url at hand, whether its file is open for writing, the paths so far
NoDownload == [i |-> 0, pc |-> "none", downloaded |-> <<>>]

\* StatisticsPipeline.__init__: self.stats, the counters
InitPipelineStats ==
    [items_count |-> 0, notes_count |-> 0, users_count |-> 0,
     comments_count |-> 0, errors_count |-> 0]

\* adapter.get(key, default); adapter.get(key) defaults to None
None == "None"

Get(fields, key, default) == IF key \in DOMAIN fields THEN fields[key] ELSE default

\* json.dumps of a list: a text that stands for the list
JsonDumps(value) == <<"json", value>>

\* the row _insert_note proposes: the values tuple, column by column;
\* updated_at is taken to default to the time of the insert
NoteRow(fields, now) ==
    [url |-> Get(fields, "url", None),
     title |-> Get(fields, "title", None),
     content |-> Get(fields, "content", None),
     keyword |-> Get(fields, "keyword", None),
     author_name |-> Get(fields, "author_name", None),
     author_id |-> Get(fields, "author_id", None),
     author_avatar |-> Get(fields, "author_avatar", None),
     likes_count |-> Get(fields, "likes_count", 0),
     comments_count |-> Get(fields, "comments_count", 0),
     shares_count |-> Get(fields, "shares_count", 0),
     images |-> JsonDumps(Get(fields, "images", <<>>)),
     tags |-> JsonDumps(Get(fields, "tags", <<>>)),
     crawl_time |-> Get(fields, "crawl_time", None),
     note_type |-> Get(fields, "note_type", None),
     location |-> Get(fields, "location", None),
     quality_score |-> Get(fields, "quality_score", None),
     is_featured |-> Get(fields, "is_featured", FALSE),
     updated_at |-> now]

\* an upsert that writes every column of the proposed row
InsertNoteReplacingRow(rows, fields, now) ==
    [k \in DOMAIN rows \cup {<<"note", fields.note_id>>} |->
        IF k = <<"note", fields.note_id>> THEN NoteRow(fields, now) ELSE rows[k]]

\* _insert_note: INSERT ... ON CONFLICT (note_id) DO UPDATE SET title,
\* content, likes_count, comments_count, shares_count = EXCLUDED's,
\* updated_at = CURRENT_TIMESTAMP
InsertNote(rows, fields, now) ==
    LET key == <<"note", fields.note_id>>
        excluded == NoteRow(fields, now)
    IN  IF key \in DOMAIN rows
        THEN [rows EXCEPT ![key] =
                 [@ EXCEPT !.title = excluded.title,
                           !.content = excluded.content,
                           !.likes_count = excluded.likes_count,
                           !.comments_count = excluded.comments_count,
                           !.shares_count = excluded.shares_count,
                           !.updated_at = now]]
        ELSE [k \in DOMAIN rows \cup {key} |->
                 IF k = key THEN excluded ELSE rows[k]]

\* _insert_user and _insert_comment: pass
InsertUser(rows, fields, now) == rows

InsertComment(rows, fields, now) == rows

\* the isinstance dispatch of DatabasePipeline.process_item
Insert(rows, item, now) ==
    CASE item.cls = "Note" -> InsertNote(rows, item.fields, now)
      [] item.cls = "User" -> InsertUser(rows, item.fields, now)
      [] item.cls = "Comment" -> InsertComment(rows, item.fields, now)

\* the dedup variables the pipeline leaves alone
dedupRest == <<dpc, cur, outcome, age, admitted, job_admitted, redis_failed, submits>>

\* a record's trip through the pipeline ends: dropped, lost or stored
Finish(how) ==
    /\ pl_stage' = "idle"
    /\ pl_item' = NoItem
    /\ pl_outcome' = how

\* open_spider of the pipelines of a new job process: new pipeline objects,
\* a database connection (or the failure to get one, which is logged), a
\* new export file
OpenJob(db_ok) ==
    /\ pl_stage = "closed"
    /\ pl_stage' = "idle"
    /\ pl_outcome' = "none"
    /\ seen_items' = [seen_items EXCEPT ![PipelineJob] = {}]
    /\ db_conn' = db_ok
    /\ exported' = <<>>
    /\ pstats' = InitPipelineStats
    /\ UNCHANGED <<pl_item, pl_raw, dl, files, fetches, db, clock, yielded>>
    /\ UNCHANGED <<redis_set, redis_ttl, dedupRest>>
    /\ UNCHANGED <<supVars, retryVars, mwVars, exVars>>

\* the job ends between two records: close_spider
CloseJob ==
    /\ pl_stage = "idle"
    /\ pl_stage' = "closed"
    /\ UNCHANGED <<pl_item, pl_raw, pl_outcome, dl, files, fetches, db, db_conn,
                   clock, exported, pstats, yielded>>
    /\ UNCHANGED dedupVars
    /\ UNCHANGED <<supVars, retryVars, mwVars, exVars>>

\* stop_spider kills the job process while a record is in the pipeline:
\* what is on disk, in Redis and in the database stays as it is
KillJob ==
    /\ pl_stage \notin {"closed", "idle"}
    /\ pl_stage' = "closed"
    /\ pl_item' = NoItem
    /\ pl_outcome' = "killed"
    /\ dl' = NoDownload
    /\ UNCHANGED <<pl_raw, files, fetches, db, db_conn, clock, exported, pstats, yielded>>
    /\ UNCHANGED dedupVars
    /\ UNCHANGED <<supVars, retryVars, mwVars, exVars>>

\* the spider yields an item: it enters the first pipeline
YieldItem(raw) ==
    /\ pl_stage = "idle"
    /\ yielded < MaxItems
    /\ yielded' = yielded + 1
    /\ pl_raw' = raw
    /\ pl_item' = MakeItem(raw)
    /\ pl_stage' = ItemPipelines[1]
    /\ pl_outcome' = "none"
    /\ UNCHANGED <<dl, files, fetches, db, db_conn, clock, exported, pstats>>
    /\ UNCHANGED dedupVars
    /\ UNCHANGED <<supVars, retryVars, mwVars, exVars>>

\* ValidationPipeline.process_item
ValidationStep ==
    /\ pl_stage = "validation"
    /\ LET result == ValidationProcessItem(pl_item)
       IN  IF result.drop
           THEN Finish("dropped by validation")
           ELSE /\ pl_item' = result.item
                /\ pl_stage' = NextPipeline("validation")
                /\ UNCHANGED pl_outcome
    /\ UNCHANGED <<pl_raw, dl, files, fetches, db, db_conn, clock, exported, pstats, yielded>>
    /\ UNCHANGED dedupVars
    /\ UNCHANGED <<supVars, retryVars, mwVars, exVars>>

\* DuplicationFilterPipeline.process_item, from _is_duplicate to the end of
\* _mark_as_seen; each of the three Redis calls answers or raises
DuplicationStep(sismember_ok, sadd_ok, expire_ok) ==
    /\ pl_stage = "duplication"
    /\ LET item_id == GenerateItemId(pl_item.fields)
       IN  IF IsDuplicate(PipelineJob, item_id, sismember_ok)
           THEN /\ Finish("dropped as duplicate")
                /\ UNCHANGED <<redis_set, redis_ttl, seen_items>>
           ELSE /\ redis_set' = IF sadd_ok THEN redis_set \cup {item_id} ELSE redis_set
                /\ redis_ttl' = IF sadd_ok /\ expire_ok THEN TtlTicks ELSE redis_ttl
                /\ seen_items' = [seen_items EXCEPT ![PipelineJob] = @ \cup {item_id}]
                /\ pl_stage' = NextPipeline("duplication")
                /\ UNCHANGED <<pl_item, pl_outcome>>
    /\ UNCHANGED <<pl_raw, dl, files, fetches, db, db_conn, clock, exported, pstats, yielded>>
    /\ UNCHANGED dedupRest
    /\ UNCHANGED <<supVars, retryVars, mwVars, exVars>>

\* ImageDownloadPipeline.process_item up to the loop: an item without
\* images is returned as it is
ImageBegin ==
    /\ pl_stage = "image"
    /\ dl = NoDownload
    /\ IF HasValue(pl_item.fields, "images")
       THEN /\ dl' = [i |-> 1, pc |-> "loop", downloaded |-> <<>>]
            /\ UNCHANGED pl_stage
       ELSE /\ pl_stage' = NextPipeline("image")
            /\ UNCHANGED dl
    /\ UNCHANGED <<pl_item, pl_raw, pl_outcome, files, fetches, db, db_conn, clock,
                   exported, pstats, yielded>>
    /\ UNCHANGED dedupVars
    /\ UNCHANGED <<supVars, retryVars, mwVars, exVars>>

\* the image url the loop is at
ImageAtHand == pl_item.fields.images[dl.i]

InLoop ==
    /\ pl_stage = "image"
    /\ dl.pc = "loop"
    /\ dl.i <= Len(pl_item.fields.images)

\* _download_image finds the file: return filepath
ImageExists ==
    /\ InLoop
    /\ PathExists(Filepath(ImageAtHand))
    /\ dl' = [dl EXCEPT !.i = @ + 1, !.downloaded = Append(@, Filepath(ImageAtHand))]
    /\ fetches' = [fetches EXCEPT ![ImageAtHand].reused = @ + 1]
    /\ UNCHANGED <<pl_stage, pl_item, pl_raw, pl_outcome, files, db, db_conn,
                   clock, exported, pstats, yielded>>
    /\ UNCHANGED dedupVars
    /\ UNCHANGED <<supVars, retryVars, mwVars, exVars>>

\* _download_image finds no file: requests.get and raise_for_status, which
\* raise (return None) or are followed by open(filepath, 'wb')
ImageGet(get_ok) ==
    /\ InLoop
    /\ ~PathExists(Filepath(ImageAtHand))
    /\ fetches' = [fetches EXCEPT ![ImageAtHand] =
                      [@ EXCEPT !.tried = @ + 1, !.ok = @ + (IF get_ok THEN 1 ELSE 0)]]
    /\ IF get_ok
       THEN /\ files' = [p \in DOMAIN files \cup {Filepath(ImageAtHand)} |->
                            IF p = Filepath(ImageAtHand) THEN "partial" ELSE files[p]]
            /\ dl' = [dl EXCEPT !.pc = "write"]
       ELSE /\ dl' = [dl EXCEPT !.i = @ + 1]
            /\ UNCHANGED files
    /\ UNCHANGED <<pl_stage, pl_item, pl_raw, pl_outcome, db, db_conn, clock, exported,
                   pstats, yielded>>
    /\ UNCHANGED dedupVars
    /\ UNCHANGED <<supVars, retryVars, mwVars, exVars>>

\* f.write(response.content) and the end of the with block: return filepath
ImageWrite ==
    /\ pl_stage = "image"
    /\ dl.pc = "write"
    /\ files' = [files EXCEPT ![Filepath(ImageAtHand)] = "complete"]
    /\ dl' = [dl EXCEPT !.pc = "loop", !.i = @ + 1,
                        !.downloaded = Append(@, Filepath(ImageAtHand))]
    /\ UNCHANGED <<pl_stage, pl_item, pl_raw, pl_outcome, fetches, db, db_conn, clock,
                   exported, pstats, yielded>>
    /\ UNCHANGED dedupVars
    /\ UNCHANGED <<supVars, retryVars, mwVars, exVars>>

\* after the loop: adapter['local_images'] = downloaded_images, which is a
\* KeyError on an item class that does not declare the field
ImageEnd ==
    /\ pl_stage = "image"
    /\ dl.pc = "loop"
    /\ dl.i > Len(pl_item.fields.images)
    /\ dl' = NoDownload
    /\ IF "local_images" \in DeclaredFields(pl_item.cls)
       THEN /\ pl_item' = SetField(pl_item, "local_images", dl.downloaded)
            /\ pl_stage' = NextPipeline("image")
            /\ UNCHANGED pl_outcome
       ELSE Finish("lost in image")
    /\ UNCHANGED <<pl_raw, files, fetches, db, db_conn, clock, exported, pstats, yielded>>
    /\ UNCHANGED dedupVars
    /\ UNCHANGED <<supVars, retryVars, mwVars, exVars>>

\* DatabasePipeline.process_item: the insert and the commit, or the
\* rollback and DropItem when they raise; without a connection the
\* rollback raises as well
DatabaseStep(db_ok) ==
    /\ pl_stage = "database"
    /\ IF ~db_conn
       THEN /\ Finish("lost in database")
            /\ UNCHANGED <<db, clock>>
       ELSE IF ~db_ok
       THEN /\ Finish("dropped by database")
            /\ UNCHANGED <<db, clock>>
       ELSE /\ db' = Insert(db, pl_item, clock)
            /\ clock' = clock + 1
            /\ pl_stage' = NextPipeline("database")
            /\ UNCHANGED <<pl_item, pl_outcome>>
    /\ UNCHANGED <<pl_raw, dl, files, fetches, db_conn, exported, pstats, yielded>>
    /\ UNCHANGED dedupVars
    /\ UNCHANGED <<supVars, retryVars, mwVars, exVars>>

\* process_item of JsonWriterPipeline without the flush: the line stays in
\* the buffer of the file object
JsonStepBuffered ==
    /\ pl_stage = "json"
    /\ pl_stage' = NextPipeline("json")
    /\ UNCHANGED <<pl_item, pl_raw, pl_outcome, dl, files, fetches, db, db_conn, clock,
                   exported, pstats, yielded>>
    /\ UNCHANGED dedupVars
    /\ UNCHANGED <<supVars, retryVars, mwVars, exVars>>

\* JsonWriterPipeline.process_item: one line, flushed
JsonStep ==
    /\ pl_stage = "json"
    /\ exported' = Append(exported, pl_item)
    /\ pl_stage' = NextPipeline("json")
    /\ UNCHANGED <<pl_item, pl_raw, pl_outcome, dl, files, fetches, db, db_conn, clock,
                   pstats, yielded>>
    /\ UNCHANGED dedupVars
    /\ UNCHANGED <<supVars, retryVars, mwVars, exVars>>

\* StatisticsPipeline.process_item, the last pipeline
StatisticsStep ==
    /\ pl_stage = "statistics"
    /\ pstats' = [pstats EXCEPT
                     !.items_count = @ + 1,
                     !.notes_count = @ + (IF pl_item.cls = "Note" THEN 1 ELSE 0),
                     !.users_count = @ + (IF pl_item.cls = "User" THEN 1 ELSE 0),
                     !.comments_count = @ + (IF pl_item.cls = "Comment" THEN 1 ELSE 0)]
    /\ Finish("stored")
    /\ UNCHANGED <<pl_raw, dl, files, fetches, db, db_conn, clock, exported, yielded>>
    /\ UNCHANGED dedupVars
    /\ UNCHANGED <<supVars, retryVars, mwVars, exVars>>

PipelineNext ==
    \/ \E db_ok \in BOOLEAN : OpenJob(db_ok)
    \/ CloseJob
    \/ KillJob
    \/ \E raw \in RawItems : YieldItem(raw)
    \/ ValidationStep
    \/ \E sismember_ok, sadd_ok, expire_ok \in BOOLEAN :
          DuplicationStep(sismember_ok, sadd_ok, expire_ok)
    \/ ImageBegin
    \/ ImageExists
    \/ \E get_ok \in BOOLEAN : ImageGet(get_ok)
    \/ ImageWrite
    \/ ImageEnd
    \/ \E db_ok \in BOOLEAN : DatabaseStep(db_ok)
    \/ JsonStep
    \/ StatisticsStep

\* records with the other fields of the item classes set: two records of
\* one Note, without images, that differ in every other column they set; a
\* Note with an image whose video_url is no url; a Note whose url is no
\* url; a User whose profile_url or avatar_url is no url
UrlRawItems ==
    { [cls |-> "Note",
       fields |-> [note_id |-> "n1", url |-> PageUrl("n1"), title |-> Text("short"),
                   content |-> Text("short"), keyword |-> "k1", author_id |-> "a1",
                   author_avatar |-> BadUrl, likes_count |-> 1, comments_count |-> 1,
                   shares_count |-> 0, images |-> <<>>, tags |-> <<"t1">>,
                   note_type |-> "image", is_featured |-> FALSE]],
      [cls |-> "Note",
       fields |-> [note_id |-> "n1", url |-> PageUrl("n1b"), title |-> Text("spaced"),
                   content |-> Text("long"), keyword |-> "k2", author_id |-> "a2",
                   author_avatar |-> U2, likes_count |-> 2, comments_count |-> 3,
                   shares_count |-> 1, tags |-> <<>>,
                   note_type |-> "video", is_featured |-> TRUE]],
      [cls |-> "Note",
       fields |-> [note_id |-> "n3", url |-> PageUrl("n3"), title |-> Text("short"),
                   content |-> Text("short"), likes_count |-> 1, images |-> <<U1>>,
                   video_url |-> BadUrl]],
      RawNote("n5", BadUrl, "short", "short", 0, <<>>),
      [cls |-> "User",
       fields |-> [user_id |-> "u1", username |-> Text("short"),
                   profile_url |-> BadUrl]],
      [cls |-> "User",
       fields |-> [user_id |-> "u2", username |-> Text("short"),
                   profile_url |-> PageUrl("u2"), avatar_url |-> BadUrl]] }

\* the pipeline of a job whose spider yields the records of UrlRawItems
UrlFieldsNext ==
    \/ \E db_ok \in BOOLEAN : OpenJob(db_ok)
    \/ CloseJob
    \/ KillJob
    \/ \E raw \in UrlRawItems : YieldItem(raw)
    \/ ValidationStep
    \/ \E sismember_ok, sadd_ok, expire_ok \in BOOLEAN :
          DuplicationStep(sismember_ok, sadd_ok, expire_ok)
    \/ ImageBegin
    \/ ImageExists
    \/ \E get_ok \in BOOLEAN : ImageGet(get_ok)
    \/ ImageWrite
    \/ ImageEnd
    \/ \E db_ok \in BOOLEAN : DatabaseStep(db_ok)
    \/ JsonStep
    \/ StatisticsStep

----------------------------------------------------------------------------
(* The request path: app/middlewares.py, HeadersMiddleware,                *)
(* CookiesMiddleware and SeleniumMiddleware, and the job process around it *)
(*                                                                         *)
(* A url is the sequence of the pieces of its text, which urlparse and the *)
(* "in" test read as Python reads the str.  A header map is a function     *)
(* from header keys to values.  One request at a time is followed from     *)
(* HeadersMiddleware to the downloader and back.                           *)

\* 'xiaohongshu.com' in request.url
SitePattern == <<"xiaohongshu.com">>

\* the urls the spider requests: urljoin(response.url, link) of a link with
\* '/explore/' in it, which may lead to the site or away from it
SiteUrl == <<"https", "://", "www.", "xiaohongshu.com", "/", "explore", "/", "1">>

OtherUrl == <<"https", "://", "cdn.example", "/", "explore", "/", "1">>

LinkingUrl ==
    <<"https", "://", "cdn.example", "/", "explore", "/", "?", "from=", "xiaohongshu.com">>

RequestUrls == {SiteUrl, OtherUrl, LinkingUrl}

\* urlparse(url).netloc: what lies between "://" and the path
Netloc(url) ==
    LET ends == {i \in 3 .. Len(url) : url[i] \in {"/", "?", "#"}}
        end == IF ends = {} THEN Len(url) + 1
               ELSE CHOOSE i \in ends : \A j \in ends : i <= j
    IN  IF Len(url) >= 2 /\ url[2] = "://" THEN SubSeq(url, 3, end - 1) ELSE <<>>

\* BaseSpider.get_headers
BaseSpiderHeaders ==
    ("User-Agent" :> "Mozilla/5.0")
    @@ ("Accept" :> "text/html,application/xhtml+xml,application/xml;q=0.9,image/webp,*/*;q=0.8")
    @@ ("Accept-Language" :> "zh-CN,zh;q=0.8,en-US;q=0.5,en;q=0.3")
    @@ ("Accept-Encoding" :> "gzip, deflate")
    @@ ("Connection" :> "keep-alive")
    @@ ("Upgrade-Insecure-Requests" :> "1")

\* XiaohongshuSpider.get_headers
XiaohongshuSpiderHeaders ==
    ("Referer" :> "https://www.xiaohongshu.com/")
    @@ ("Origin" :> "https://www.xiaohongshu.com")
    @@ ("sec-ch-ua" :> "\"Google Chrome\";v=\"91\", \"Chromium\";v=\"91\", \";Not A Brand\";v=\"99\"")
    @@ ("sec-ch-ua-mobile" :> "?0")
    @@ ("sec-fetch-dest" :> "document")
    @@ ("sec-fetch-mode" :> "navigate")
    @@ ("sec-fetch-site" :> "same-origin")
    @@ ("sec-fetch-user" :> "?1")
    @@ BaseSpiderHeaders

\* the headers of a request of a spider that keeps BaseSpider.get_headers
\* and names the page it follows a link from as the Referer
FollowingSpiderHeaders ==
    ("Referer" :> "https://www.xiaohongshu.com/search_result") @@ BaseSpiderHeaders

RequestHeaders == {BaseSpiderHeaders, XiaohongshuSpiderHeaders, FollowingSpiderHeaders}

\* scrapy.Request(url=url, headers=...): no cookies are given, so
\* request.cookies is an empty dict
HttpRequest(url, headers) == [url |-> url, headers |-> headers, cookies |-> <<>>]

NoHttpRequest == [url |-> <<>>, headers |-> <<>>, cookies |-> <<>>]

\* HeadersMiddleware.default_headers
DefaultHeaders ==
    ("Accept" :> "text/html,application/xhtml+xml,application/xml;q=0.9,image/webp,*/*;q=0.8")
    @@ ("Accept-Language" :> "zh-CN,zh;q=0.8,en-US;q=0.5,en;q=0.3")
    @@ ("Accept-Encoding" :> "gzip, deflate")
    @@ ("Connection" :> "keep-alive")
    @@ ("Upgrade-Insecure-Requests" :> "1")
    @@ ("Cache-Control" :> "no-cache")
    @@ ("Pragma" :> "no-cache")

\* the headers HeadersMiddleware sets on a request whose url names the site
SiteHeaders ==
    ("Referer" :> "https://www.xiaohongshu.com/")
    @@ ("Origin" :> "https://www.xiaohongshu.com")
    @@ ("sec-ch-ua" :> "\"Google Chrome\";v=\"91\", \"Chromium\";v=\"91\", \";Not A Brand\";v=\"99\"")
    @@ ("sec-ch-ua-mobile" :> "?0")
    @@ ("sec-fetch-dest" :> "document")
    @@ ("sec-fetch-mode" :> "navigate")
    @@ ("sec-fetch-site" :> "same-origin")

\* HeadersMiddleware.process_request: a default header is set where the key
\* is not in request.headers; on a url that names the site,
\* request.headers.update(...) then sets the site's headers whatever the
\* request had
HeadersProcessRequest(request) ==
    LET filled == request.headers @@ DefaultHeaders
    IN  [request EXCEPT !.headers =
            IF Contains(request.url, SitePattern)
            THEN SiteHeaders @@ filled
            ELSE filled]

Cookie(name, value) == [name |-> name, value |-> value]

NoCookie == Cookie("", "")

\* load_cookies: the content of cookies.json, or {} when there is no file
LoadCookies(file) ==
    IF file = "saved"
    THEN (Netloc(SiteUrl) :> <<Cookie("sid", "saved"), Cookie("lang", "zh")>>)
    ELSE <<>>

\* CookiesMiddleware.process_request: the cookies kept under the netloc of
\* the url are set on request.cookies, a later one over an earlier one of
\* the same name
CookiesProcessRequest(store, request) ==
    LET domain == Netloc(request.url)
        kept == IF domain \in DOMAIN store THEN store[domain] ELSE <<>>
        names == {kept[i].name : i \in DOMAIN kept}
        Last(name) ==
            CHOOSE i \in DOMAIN kept :
                /\ kept[i].name = name
                /\ \A j \in DOMAIN kept : kept[j].name = name => j <= i
    IN  [request EXCEPT !.cookies =
            [name \in DOMAIN request.cookies \cup names |->
                IF name \in names THEN kept[Last(name)].value
                ELSE request.cookies[name]]]

\* a response of the downloader, with or without a Set-Cookie header
Downloaded(set_cookie) == [kind |-> "downloaded", set_cookie |-> set_cookie]

\* HtmlResponse(url=..., body=..., encoding=..., request=...): no headers
HtmlResponse == [kind |-> "rendered", set_cookie |-> NoCookie]

NoHttpResponse == [kind |-> "none", set_cookie |-> NoCookie]

\* CookiesMiddleware.process_response: a response with Set-Cookie makes sure
\* the netloc has a list in the store; nothing is put on the list
CookiesProcessResponse(store, request, response) ==
    LET domain == Netloc(request.url)
    IN  IF response.set_cookie # NoCookie /\ domain \notin DOMAIN store
        THEN store @@ (domain :> <<>>)
        ELSE store

\* selenium_patterns
SeleniumPatterns == <<SitePattern>>

\* _should_use_selenium
ShouldUseSelenium(url) ==
    \E i \in DOMAIN SeleniumPatterns : Contains(url, SeleniumPatterns[i])

\* process_request of a SeleniumMiddleware that renders every url
SeleniumProcessRequestAnyUrl(request, drv, render_ok) ==
    IF drv = "None" \/ ~render_ok
    THEN NoHttpResponse
    ELSE HtmlResponse

\* SeleniumMiddleware.process_request: None for a url that matches no
\* pattern; else the rendered page, or None when anything in the try block
\* raised (self.driver is None, the navigation timed out, ...)
SeleniumProcessRequest(request, drv, render_ok) ==
    IF ~ShouldUseSelenium(request.url)
    THEN NoHttpResponse
    ELSE IF drv = "None" \/ ~render_ok
    THEN NoHttpResponse
    ELSE HtmlResponse

\* the job process builds its middlewares and opens the spider.  With
\* SeleniumMiddleware installed (USE_SELENIUM set and its line of
\* DOWNLOADER_MIDDLEWARES enabled), its open_spider starts the browser if the
\* framework calls open_spider of a downloader middleware at all; a browser
\* that does not start raises out of open_spider and the crawl is over
\* before its first request.
OpenMiddlewares(installed, called, driver_ok, file) ==
    /\ mw_pc = "closed"
    /\ cookies' = LoadCookies(file)
    /\ selenium' = installed
    /\ job_stats' = stats
    /\ IF installed /\ called
       THEN IF driver_ok
            THEN driver' = "Chrome" /\ mw_pc' = "ready"
            ELSE driver' = "None" /\ mw_pc' = "aborted"
       ELSE driver' = "None" /\ mw_pc' = "ready"
    /\ UNCHANGED <<mw_req, mw_resp, sent>>
    /\ UNCHANGED <<pxVars, exVars>>
    /\ UNCHANGED <<supVars, dedupVars, retryVars, plVars>>

\* the engine hands a request of the spider to the downloader middlewares
SendRequest(url, headers) ==
    /\ mw_pc = "ready"
    /\ sent < MaxSent
    /\ sent' = sent + 1
    /\ mw_req' = HttpRequest(url, headers)
    /\ mw_resp' = NoHttpResponse
    /\ mw_pc' = "headers"
    /\ UNCHANGED <<cookies, selenium, driver, job_stats>>
    /\ UNCHANGED <<pxVars, exVars>>
    /\ UNCHANGED <<supVars, dedupVars, retryVars, plVars>>

\* HeadersMiddleware (500)
HeadersStep ==
    /\ mw_pc = "headers"
    /\ mw_req' = HeadersProcessRequest(mw_req)
    /\ mw_pc' = "cookies"
    /\ UNCHANGED <<mw_resp, cookies, selenium, driver, job_stats, sent>>
    /\ UNCHANGED <<pxVars, exVars>>
    /\ UNCHANGED <<supVars, dedupVars, retryVars, plVars>>

\* CookiesMiddleware (720), request path
CookiesRequestStep ==
    /\ mw_pc = "cookies"
    /\ mw_req' = CookiesProcessRequest(cookies, mw_req)
    /\ mw_pc' = IF selenium THEN "selenium" ELSE "download"
    /\ UNCHANGED <<mw_resp, cookies, selenium, driver, job_stats, sent>>
    /\ UNCHANGED <<pxVars, exVars>>
    /\ UNCHANGED <<supVars, dedupVars, retryVars, plVars>>

\* SeleniumMiddleware (800): a response it returns goes back through the
\* process_response methods without a download; None lets the request go on
SeleniumStep(render_ok) ==
    /\ mw_pc = "selenium"
    /\ LET response == SeleniumProcessRequest(mw_req, driver, render_ok)
       IN  IF response = NoHttpResponse
           THEN /\ mw_pc' = "download"
                /\ UNCHANGED mw_resp
           ELSE /\ mw_pc' = "response"
                /\ mw_resp' = response
    /\ UNCHANGED <<mw_req, cookies, selenium, driver, job_stats, sent>>
    /\ UNCHANGED <<pxVars, exVars>>
    /\ UNCHANGED <<supVars, dedupVars, retryVars, plVars>>

\* the downloader fetches the page
Fetch(set_cookie) ==
    /\ mw_pc = "download"
    /\ mw_resp' = Downloaded(set_cookie)
    /\ mw_pc' = "response"
    /\ UNCHANGED <<mw_req, cookies, selenium, driver, job_stats, sent>>
    /\ UNCHANGED <<pxVars, exVars>>
    /\ UNCHANGED <<supVars, dedupVars, retryVars, plVars>>

\* CookiesMiddleware (720), response path
CookiesResponseStep ==
    /\ mw_pc = "response"
    /\ cookies' = CookiesProcessResponse(cookies, mw_req, mw_resp)
    /\ mw_pc' = "ready"
    /\ UNCHANGED <<mw_req, mw_resp, selenium, driver, job_stats, sent>>
    /\ UNCHANGED <<pxVars, exVars>>
    /\ UNCHANGED <<supVars, dedupVars, retryVars, plVars>>

\* the crawl is over and process.start() returns (ok) or raises (~ok):
\* run_spider of the job process counts the run in its copy of the stats
\* and the process exits
JobExit(ok) ==
    /\ mw_pc \in {"ready", "aborted"}
    /\ job_stats' = RunSpider(job_stats, ok)
    /\ mw_pc' = IF mw_pc = "aborted" THEN "exited after abort" ELSE "exited"
    /\ UNCHANGED <<mw_req, mw_resp, cookies, selenium, driver, sent>>
    /\ UNCHANGED <<pxVars, exVars>>
    /\ UNCHANGED <<supVars, dedupVars, retryVars, plVars>>

MiddlewareNext ==
    \/ \E installed, called, driver_ok \in BOOLEAN, file \in {"none", "saved"} :
          OpenMiddlewares(installed, called, driver_ok, file)
    \/ \E url \in RequestUrls, headers \in RequestHeaders : SendRequest(url, headers)
    \/ HeadersStep
    \/ CookiesRequestStep
    \/ \E render_ok \in BOOLEAN : SeleniumStep(render_ok)
    \/ \E set_cookie \in {NoCookie, Cookie("sid", "fresh")} : Fetch(set_cookie)
    \/ CookiesResponseStep
    \/ \E ok \in BOOLEAN : JobExit(ok)

----------------------------------------------------------------------------
(* The proxy pool: app/middlewares.py, ProxyMiddleware                     *)
(*                                                                         *)
(* A line of the proxy file, a piece of PROXY_LIST and a proxy are         *)
(* sequences of the pieces of their text: a blank, a newline, a host:port. *)
(* One request at a time is followed from process_request to the download  *)
(* and, if the download raises, to process_exception.                      *)

Whitespace == {" ", "\n"}

\* str.strip()
RECURSIVE LStrip(_)
LStrip(text) ==
    IF text # <<>> /\ Head(text) \in Whitespace THEN LStrip(Tail(text)) ELSE text

RECURSIVE RStrip(_)
RStrip(text) ==
    IF text # <<>> /\ text[Len(text)] \in Whitespace
    THEN RStrip(SubSeq(text, 1, Len(text) - 1))
    ELSE text

Strip(text) == RStrip(LStrip(text))

\* [line.strip() for line in lines if line.strip()]
Stripped(lines) ==
    SelectSeq([i \in DOMAIN lines |-> Strip(lines[i])], LAMBDA line : line # <<>>)

\* the file PROXY_FILE: absent, with two proxies and an empty line, with an
\* empty line only
ProxyFiles ==
    { [exists |-> FALSE, lines |-> <<>>],
      [exists |-> TRUE,
       lines |-> << <<"p1:80", "\n">>, <<"\n">>, <<" ", "p2:80", " ", "\n">> >>],
      [exists |-> TRUE, lines |-> << <<"\n">> >>] }

\* PROXY_LIST, split at its commas: not set, two proxies, a blank
ProxyLists == { <<>>, << <<"p3:80">>, <<" ", "p1:80">> >>, << <<" ">> >> }

\* load_proxies: the lines of the file; PROXY_LIST if that gave nothing
LoadProxies(file, proxy_env) ==
    LET from_file == IF file.exists THEN Stripped(file.lines) ELSE <<>>
    IN  IF from_file # <<>> THEN from_file ELSE Stripped(proxy_env)

\* no proxy: the None of get_random_proxy, the absent meta['proxy']
NoProxy == <<>>

\* get_random_proxy: what it may return, None for an empty pool and any
\* member of the pool (random.choice) otherwise
GetRandomProxy(pool) ==
    IF pool = <<>> THEN {NoProxy} ELSE {pool[i] : i \in DOMAIN pool}

\* every proxy a pool of the model may hold, and none
ProxyChoices == {NoProxy, <<"p1:80">>, <<"p2:80">>, <<"p3:80">>}

\* f"http://{proxy}"
ProxyUrl(proxy) == <<"http://">> \o proxy

\* from_crawler and __init__: NotConfigured unless USE_PROXY, else the pool
\* is loaded
ProxyFromCrawler(use_proxy, file, proxy_env) ==
    /\ px_pc = "unbuilt"
    /\ IF use_proxy
       THEN /\ proxies' = LoadProxies(file, proxy_env)
            /\ px_pc' = "idle"
       ELSE /\ px_pc' = "not configured"
            /\ UNCHANGED proxies
    /\ UNCHANGED <<px_meta, px_ret, px_failed, px_sent>>
    /\ UNCHANGED <<chainVars, exVars>>
    /\ UNCHANGED <<supVars, dedupVars, retryVars, plVars>>

\* process_request of the next request, which get_random_proxy answers
\* with proxy: meta['proxy'] is set if there is one; return None
ProxyProcessRequest(proxy) ==
    /\ px_pc \in {"idle", "downloaded", "failed"}
    /\ px_sent < MaxProxied
    /\ proxy \in GetRandomProxy(proxies)
    /\ px_sent' = px_sent + 1
    /\ px_meta' = IF proxy # NoProxy THEN ProxyUrl(proxy) ELSE NoProxy
    /\ px_ret' = "None"
    /\ px_pc' = "downloading"
    /\ UNCHANGED <<proxies, px_failed>>
    /\ UNCHANGED <<chainVars, exVars>>
    /\ UNCHANGED <<supVars, dedupVars, retryVars, plVars>>

\* the download of the request: a response, or an exception, which is
\* handed to the process_exception hooks
ProxyDownload(ok) ==
    /\ px_pc = "downloading"
    /\ px_pc' = IF ok THEN "downloaded" ELSE "exception"
    /\ UNCHANGED <<proxies, px_meta, px_ret, px_failed, px_sent>>
    /\ UNCHANGED <<chainVars, exVars>>
    /\ UNCHANGED <<supVars, dedupVars, retryVars, plVars>>

\* process_exception with the removal its comment leaves for later
ProxyProcessExceptionEvicting ==
    /\ px_pc = "exception"
    /\ proxies' = SelectSeq(proxies, LAMBDA proxy : ProxyUrl(proxy) # px_meta)
    /\ px_failed' = IF px_meta # NoProxy THEN px_failed \cup {px_meta} ELSE px_failed
    /\ px_ret' = "None"
    /\ px_pc' = "failed"
    /\ UNCHANGED <<px_meta, px_sent>>
    /\ UNCHANGED <<chainVars, exVars>>
    /\ UNCHANGED <<supVars, dedupVars, retryVars, plVars>>

\* process_exception: a warning if meta has 'proxy'; return None, on which
\* Scrapy hands the exception on and the request fails with it
ProxyProcessException ==
    /\ px_pc = "exception"
    /\ px_failed' = IF px_meta # NoProxy THEN px_failed \cup {px_meta} ELSE px_failed
    /\ px_ret' = "None"
    /\ px_pc' = "failed"
    /\ UNCHANGED <<proxies, px_meta, px_sent>>
    /\ UNCHANGED <<chainVars, exVars>>
    /\ UNCHANGED <<supVars, dedupVars, retryVars, plVars>>

ProxyNext ==
    \/ \E use_proxy \in BOOLEAN, file \in ProxyFiles, proxy_env \in ProxyLists :
          ProxyFromCrawler(use_proxy, file, proxy_env)
    \/ \E proxy \in ProxyChoices : ProxyProcessRequest(proxy)
    \/ \E ok \in BOOLEAN : ProxyDownload(ok)
    \/ ProxyProcessException

----------------------------------------------------------------------------
(* extract_number: app/spiders/xiaohongshu_spider.py                       *)
(*                                                                         *)
(* A text is a sequence of characters.  The product of the float and the   *)
(* unit is computed exactly: for the texts of the model the double         *)
(* product truncates to the same integer.                                  *)

\* the longest text extract_number is called with
MaxLen == 3

\* the characters of the texts
Chars == {"1", "5", ".", "k", "W", "a", "U+4E07"}

Texts == UNION {[1 .. n -> Chars] : n \in 0 .. MaxLen}

\* int() of a digit
DigitValue ==
    ("0" :> 0) @@ ("1" :> 1) @@ ("2" :> 2) @@ ("3" :> 3) @@ ("4" :> 4)
    @@ ("5" :> 5) @@ ("6" :> 6) @@ ("7" :> 7) @@ ("8" :> 8) @@ ("9" :> 9)

\* [\d.]
NumberChars == DOMAIN DigitValue \cup {"."}

\* [kw万千]
UnitChars == {"k", "w", "U+4E07", "U+5343"}

Returned(value) == [kind |-> "returned", value |-> value]

RaisedError(exception) == [kind |-> "raised", value |-> exception]

NoResult == [kind |-> "none", value |-> 0]

RECURSIVE DigitsOf(_)
\* the digits of a literal as one integer, the point left out
DigitsOf(literal) ==
    IF literal = <<>> THEN 0
    ELSE LET last == literal[Len(literal)]
             front == SubSeq(literal, 1, Len(literal) - 1)
         IN  IF last = "." THEN DigitsOf(front)
             ELSE DigitsOf(front) * 10 + DigitValue[last]

RECURSIVE Pow10(_)
Pow10(n) == IF n = 0 THEN 1 ELSE 10 * Pow10(n - 1)

\* the digits after the point
Decimals(literal) ==
    LET points == {i \in DOMAIN literal : literal[i] = "."}
    IN  IF points = {} THEN 0 ELSE Len(literal) - (CHOOSE i \in points : TRUE)

\* float(literal) accepts digits with at most one point and at least one digit
IsFloatLiteral(literal) ==
    /\ Cardinality({i \in DOMAIN literal : literal[i] = "."}) <= 1
    /\ \E i \in DOMAIN literal : literal[i] # "."

\* extract_number: re.search(r'([\d.]+)([kw...]?)', text.lower()) finds the
\* first run of digits and points and the unit right after it; float() of
\* the run raises ValueError when the run is no literal
ExtractNumber(text) ==
    LET lower == Lower(text)
        starts == {i \in DOMAIN lower : lower[i] \in NumberChars}
    IN  IF text = <<>> \/ starts = {} THEN Returned(0)
        ELSE LET first == CHOOSE i \in starts : \A j \in starts : i <= j
                 runs == {j \in first .. Len(lower) :
                             \A m \in first .. j : lower[m] \in NumberChars}
                 last == CHOOSE j \in runs : \A m \in runs : m <= j
                 literal == SubSeq(lower, first, last)
                 unit == IF last < Len(lower) /\ lower[last + 1] \in UnitChars
                         THEN lower[last + 1] ELSE ""
                 scale == IF unit \in {"k", "U+5343"} THEN 1000
                          ELSE IF unit \in {"w", "U+4E07"} THEN 10000
                          ELSE 1
             IN  IF ~IsFloatLiteral(literal) THEN RaisedError("ValueError")
                 ELSE Returned((DigitsOf(literal) * scale) \div Pow10(Decimals(literal)))

\* extract_stats calls extract_number with the text of a counter of the page
CallExtractNumber(text) ==
    /\ ex_pc = "idle"
    /\ ex_pc' = "done"
    /\ ex_text' = text
    /\ ex_out' = ExtractNumber(text)
    /\ UNCHANGED mwVars
    /\ UNCHANGED <<supVars, dedupVars, retryVars, plVars>>

ExtractNext == \E text \in Texts : CallExtractNumber(text)

----------------------------------------------------------------------------
(* Specifications                                                          *)

\* the state after construction: a CrawlerManager that tracks nothing, no
\* job process, an empty Redis set, no request yielded yet, no job's
\* pipelines opened, nothing on disk or in the database
Init ==
    /\ running_spiders = <<>>
    /\ stats = InitStats
    /\ procs = <<>>
    /\ sup_pc = "idle"
    /\ stop_name = "none"
    /\ resp = NoResponse
    /\ redis_set = {}
    /\ redis_ttl = NoTtl
    /\ seen_items = [p \in Jobs |-> {}]
    /\ dpc = [p \in Jobs |-> "idle"]
    /\ cur = [p \in Jobs |-> NoItem]
    /\ outcome = [p \in Jobs |-> "none"]
    /\ age = [nk \in NaturalKeys |-> NoAge]
    /\ admitted = [nk \in NaturalKeys |-> 0]
    /\ job_admitted = [p \in Jobs |-> [nk \in NaturalKeys |-> 0]]
    /\ redis_failed = FALSE
    /\ submits = 0
    /\ requests = [id \in ReqIds |->
                      [state |-> "unsent", request |-> NoRequest, outcome |-> NoOutcome]]
    /\ attempts = [id \in ReqIds |-> 0]
    /\ pl_stage = "closed"
    /\ pl_item = NoItem
    /\ pl_raw = NoItem
    /\ pl_outcome = "none"
    /\ dl = NoDownload
    /\ files = <<>>
    /\ fetches = [url \in {U1, U2} |-> [tried |-> 0, ok |-> 0, reused |-> 0]]
    /\ db = <<>>
    /\ db_conn = FALSE
    /\ clock = 0
    /\ exported = <<>>
    /\ pstats = InitPipelineStats
    /\ yielded = 0
    /\ mw_pc = "closed"
    /\ mw_req = NoHttpRequest
    /\ mw_resp = NoHttpResponse
    /\ cookies = <<>>
    /\ selenium = FALSE
    /\ driver = "None"
    /\ job_stats = InitStats
    /\ sent = 0
    /\ proxies = <<>>
    /\ px_pc = "unbuilt"
    /\ px_meta = NoProxy
    /\ px_ret = "none"
    /\ px_failed = {}
    /\ px_sent = 0
    /\ ex_pc = "idle"
    /\ ex_text = <<>>
    /\ ex_out = NoResult

SupervisorSpec == Init /\ [][SupNext]_vars

DedupSpec == Init /\ [][DedupNext]_vars

\* process.join(timeout=10) returns after ten seconds at the latest, so a
\* stop that has begun goes on to its end
SupervisorFairSpec ==
    /\ SupervisorSpec
    /\ WF_vars(StopSpiderFinish)

RetrySpec == Init /\ [][RetryNext]_vars

PipelineSpec == Init /\ [][PipelineNext]_vars

UrlFieldsSpec == Init /\ [][UrlFieldsNext]_vars

MiddlewareSpec == Init /\ [][MiddlewareNext]_vars

ExtractSpec == Init /\ [][ExtractNext]_vars

ProxySpec == Init /\ [][ProxyNext]_vars

\* the downloader answers every request it was given, with a response or
\* with an exception (a download that hangs ends in a timeout error)
RetryFairSpec ==
    /\ RetrySpec
    /\ \A id \in ReqIds : WF_vars(Attempt(id))

----------------------------------------------------------------------------
(* Properties of the supervisor                                            *)

\* a job process started under the name is alive, tracked or not
JobAlive(name) ==
    \E pid \in DOMAIN procs : procs[pid].name = name /\ procs[pid].alive

\* the handle tracked under the name is alive
TrackedAlive(name) ==
    /\ name \in DOMAIN running_spiders
    /\ procs[running_spiders[name]].alive

\* C1: a start(name) that arrives while the job tracked under name is alive
\* (handlers run one at a time, so two concurrent start calls are handled
\* one after the other) answers AlreadyRunning, forks no process, and the
\* tracked handle is the same, still alive, handle afterwards.
StartWhileAliveRejected ==
    [][\A name \in SpiderNames, max_pages \in MaxPagesInputs, spawn_ok \in BOOLEAN :
          (TrackedAlive(name) /\ StartSpider(name, max_pages, spawn_ok))
              => /\ resp'.code = 400
                 /\ resp'.detail = "AlreadyRunning"
                 /\ procs' = procs
                 /\ running_spiders' = running_spiders
                 /\ procs'[running_spiders'[name]].alive]_vars

\* a second start of a running job was answered AlreadyRunning
StartRejectedWitness ==
    /\ resp.op = "start"
    /\ resp.detail = "AlreadyRunning"
    /\ TrackedAlive(resp.spider)

\* C2: a stop(name) of a running job requests graceful termination first
\* and always goes on to its end, where the job is not alive (killed if it
\* outlived the grace period), its handle is no longer tracked and status
\* no longer reports it running.
StopAlwaysStops ==
    /\ [](sup_pc = "join" => procs[running_spiders[stop_name]].sigterm)
    /\ []((resp.op = "stop" /\ resp.code = 200)
            => /\ resp.spider \notin DOMAIN running_spiders
               /\ ~JobAlive(resp.spider)
               /\ ~IsRunning(resp.spider))
    /\ (sup_pc = "join") ~> (sup_pc = "idle" /\ resp.op = "stop" /\ resp.code = 200)

\* a stop returned ok after killing a job that ignored the SIGTERM
StopEscalatedWitness ==
    /\ resp.op = "stop"
    /\ resp.code = 200
    /\ \E pid \in DOMAIN procs :
           /\ procs[pid].name = resp.spider
           /\ procs[pid].sigterm
           /\ procs[pid].ended = "killed"

\* C3: a stop(name) while no job tracked under name is alive answers
\* NotRunning, signals no process, and leaves the tracked handles and the
\* run counters as they were.
StopNotRunningChangesNothing ==
    [][\A name \in SpiderNames :
          (~TrackedAlive(name) /\ StopSpiderBegin(name))
              => /\ resp'.code = 404
                 /\ resp'.detail = "NotRunning"
                 /\ procs' = procs
                 /\ running_spiders' = running_spiders
                 /\ stats' = stats
                 /\ sup_pc' = "idle"]_vars

\* a stop was answered NotRunning for a job that had exited by itself and
\* whose handle is still there
StopNotRunningWitness ==
    /\ resp.op = "stop"
    /\ resp.code = 404
    /\ resp.spider \in DOMAIN running_spiders
    /\ ~procs[running_spiders[resp.spider]].alive

\* the cases in which a start call fails
StartFails(name, max_pages, spawn_ok) ==
    \/ TrackedAlive(name)
    \/ name # "xiaohongshu"
    \/ max_pages < 1
    \/ max_pages > 100
    \/ ~spawn_ok

\* C4: a start that fails (duplicate, unsupported name, max_pages outside
\* 1..100, spawn failure) is answered with an error and leaves the tracked
\* handles and the processes as they were; a handle is only ever recorded
\* by a start that answers 200.
FailedStartLeavesNoHandle ==
    [][\A name \in SpiderNames, max_pages \in MaxPagesInputs, spawn_ok \in BOOLEAN :
          StartSpider(name, max_pages, spawn_ok)
              => /\ StartFails(name, max_pages, spawn_ok)
                     => /\ resp'.code \in {400, 500}
                        /\ running_spiders' = running_spiders
                        /\ procs' = procs
                 /\ running_spiders' # running_spiders => resp'.code = 200]_vars

\* a start failed to spawn while an earlier, dead, handle was tracked
FailedStartWitness ==
    /\ resp.op = "start"
    /\ resp.code = 500
    /\ resp.spider \in DOMAIN running_spiders
    /\ ~procs[running_spiders[resp.spider]].alive

\* C5: status(name) answers running exactly when a handle is tracked under
\* name and its process is alive, which is exactly when a job process of
\* that name is alive at all.
StatusRunningIffAlive ==
    [][\A name \in SpiderNames :
          GetSpiderStatus(name)
              => /\ resp'.running <=> TrackedAlive(name)
                 /\ resp'.running <=> JobAlive(name)
                 /\ resp'.pid = IF TrackedAlive(name)
                                THEN running_spiders[name] ELSE NoPid]_vars

\* status answered not running for a tracked job that has exited
StatusExitedWitness ==
    /\ resp.op = "status"
    /\ ~resp.running
    /\ resp.spider \in DOMAIN running_spiders
    /\ ~JobAlive(resp.spider)

\* the state a status(name) answer conveys: 'running' is all it carries
\* (main.py:122-126)
ReportedState(r) == IF r.running THEN "Running" ELSE "NotRunning"

\* the last job process forked under the name
LastJob(name) ==
    LET mine == {pid \in DOMAIN procs : procs[pid].name = name}
    IN  CHOOSE pid \in mine : \A q \in mine : q <= pid

\* the terminal state of a job process that has exited
TerminalState(p) ==
    CASE p.ended = "completed" -> "Completed"
      [] p.ended = "failed" -> "Failed"
      [] p.ended \in {"stopped", "killed"} -> "Stopped"
      [] OTHER -> "Running"

\* C6: for a job that is no longer alive, status(name) reports the
\* terminal state the job ended in: Completed, Failed or Stopped.
StatusReportsTerminalState ==
    [][\A name \in SpiderNames :
          (/\ \E pid \in DOMAIN procs : procs[pid].name = name
           /\ ~JobAlive(name)
           /\ GetSpiderStatus(name))
              => ReportedState(resp') = TerminalState(procs[LastJob(name)])]_vars

\* C7: every exit of a job shows in the supervisor's counters: total_runs
\* is the number of jobs that have exited, each counted once as successful
\* or failed, and last_run_status and last_run_time are set once a job has
\* exited.
ExitsCounted ==
    LET exited == {pid \in DOMAIN procs : ~procs[pid].alive}
    IN  /\ stats.total_runs = Cardinality(exited)
        /\ stats.successful_runs + stats.failed_runs = stats.total_runs
        /\ exited # {} => /\ stats.last_run_status \in {"success", "failed"}
                          /\ stats.last_run_time # "None"

\* C8: once stop(name) has returned, or status(name) has found the job not
\* running, no handle is tracked under name.
ObservedExitReleasesHandle ==
    (\/ resp.op = "stop"
     \/ resp.op = "status" /\ ~resp.running)
        => resp.spider \notin DOMAIN running_spiders

----------------------------------------------------------------------------
(* Properties of the Deduplicator                                          *)

\* C9: of the records with one natural key that are submitted within a TTL
\* window, in any order of the steps and whether Redis answers or raises
\* on each call, only the first is admitted.  Stated for the records one
\* job submits, one after the other: no job admits a natural key twice in
\* the key's TTL window.
NoDoubleAdmission ==
    \A p \in Jobs, nk \in NaturalKeys : job_admitted[p][nk] <= 1

\* C10: while Redis answers every call, two job processes that submit
\* records with one DedupKey at the same time are never both admitted.
NoConcurrentDoubleAdmission ==
    ~redis_failed => \A nk \in NaturalKeys : admitted[nk] <= 1

\* C11: the DedupKey is a function of the natural key of the record's
\* variant: two records that job processes are filtering have the same
\* DedupKey exactly when they have the same natural key, so a Comment and
\* the Note it is on never share one.
DedupKeyFollowsNaturalKey ==
    \A p, q \in Jobs :
        (cur[p] # NoItem /\ cur[q] # NoItem)
            => ((NaturalKey(cur[p]) = NaturalKey(cur[q]))
                    <=> (GenerateItemId(cur[p].fields) = GenerateItemId(cur[q].fields)))

----------------------------------------------------------------------------
(* Properties of the RetryPolicy                                           *)

\* C12: whatever responses and exceptions answer a request, no request is
\* scheduled with a retry count above RETRY_TIMES, and a request scheduled
\* in place of another carries the retry count of that one plus one.
RetryCountStepsByOne ==
    /\ [](\A id \in ReqIds :
            requests[id].state = "scheduled"
                => requests[id].request.retry_times <= RETRY_TIMES)
    /\ [][\A id \in ReqIds :
            (/\ requests[id].state = "scheduled"
             /\ requests'[id].state = "scheduled"
             /\ requests'[id].request # requests[id].request)
                => requests'[id].request.retry_times
                       = requests[id].request.retry_times + 1]_vars

\* a request that was reissued RETRY_TIMES times and is scheduled again
RetriedToTheCap ==
    \E id \in ReqIds :
        /\ requests[id].state = "scheduled"
        /\ requests[id].request.retry_times = RETRY_TIMES
        /\ attempts[id] = RETRY_TIMES

ClaimedRetryable(response) ==
    \/ response.status \in RETRY_HTTP_CODES
    \/ BodyLen(response) < MinBodyLen
    \/ \E indicator \in ErrorIndicators : Contains(Lower(response.text), indicator)

\* the request C14 says is scheduled in place of a retried one
ClaimedReissue(request) ==
    [kind |-> "request", retry_times |-> request.retry_times + 1,
     priority |-> request.priority + RETRY_PRIORITY_ADJUST]

\* C14: a download is followed by a reissue, with the retry count one
\* higher and the priority lowered, exactly when the retry count is below
\* RETRY_TIMES and the response is retryable or the exception is of a
\* retryable type; otherwise nothing is reissued and a response is handed
\* on as it came.
RetryDecisionAsClaimed ==
    [][\A id \in ReqIds :
          /\ \A response \in Responses :
                Download(id, response) =>
                    IF /\ requests[id].request.retry_times < RETRY_TIMES
                       /\ ClaimedRetryable(response)
                    THEN /\ requests'[id].state = "scheduled"
                         /\ requests'[id].request = ClaimedReissue(requests[id].request)
                    ELSE /\ requests'[id].state = "done"
                         /\ requests'[id].outcome = Passed(response)
          /\ \A exception \in ExceptionTypes :
                DownloadFails(id, exception) =>
                    IF /\ requests[id].request.retry_times < RETRY_TIMES
                       /\ exception \in EXCEPTIONS_TO_RETRY
                    THEN /\ requests'[id].state = "scheduled"
                         /\ requests'[id].request = ClaimedReissue(requests[id].request)
                    ELSE /\ requests'[id].state = "done"
                         /\ requests'[id].outcome = Raised(exception)]_vars

----------------------------------------------------------------------------
(* Properties of the item pipeline                                         *)

\* the pipelines after the Validator
LaterPipelines == {"duplication", "image", "database", "json", "statistics"}

\* the required fields of C15, all present on the record
Complete(item) ==
    CASE item.cls = "Note" ->
            \A key \in {"note_id", "url", "title"} : HasValue(item.fields, key)
      [] item.cls = "User" ->
            \A key \in {"user_id", "username", "profile_url"} : HasValue(item.fields, key)
      [] item.cls = "Comment" ->
            \A key \in {"comment_id", "note_id", "content", "user_id"} :
                HasValue(item.fields, key)

\* C15: a record that lacks a required field of its variant is never in a
\* pipeline after the Validator, in the database or in the export file;
\* the Validator drops it, nothing else changes, and the job goes on.
InvalidNeverPasses ==
    /\ [](/\ pl_stage \in LaterPipelines => Complete(pl_item)
          /\ \A i \in DOMAIN exported : Complete(exported[i])
          /\ \A key \in DOMAIN db : TextLen(db[key].title) > 0 /\ db[key].url # EmptyUrl)
    /\ [][(/\ pl_stage = "validation"
           /\ ~Complete(pl_item)
           /\ pl_stage' # "closed")
             => (/\ pl_stage' = "idle"
                 /\ pl_outcome' = "dropped by validation"
                 /\ UNCHANGED <<redis_set, seen_items, files, db, exported, pstats>>)]_vars

\* a record without a required field was yielded and dropped
InvalidDropped ==
    /\ pl_stage = "idle"
    /\ pl_outcome = "dropped by validation"
    /\ ~Complete(MakeItem(pl_raw))

\* the content C16 says a record leaves the Validator with
ClaimedContent(text) ==
    IF TextLen(text) > MaxContentLen
    THEN AddMarker(Prefix(text, MaxContentLen))
    ELSE text

\* C16: a record that leaves the Validator has the content the spider
\* extracted if that has at most MaxContentLen characters, and its first
\* MaxContentLen characters followed by the marker otherwise.
ContentCutAtMaximum ==
    (pl_stage = "duplication" /\ "content" \in DOMAIN pl_raw.fields)
        => pl_item.fields.content = ClaimedContent(pl_raw.fields.content)

\* C17, as stated: no image url is fetched from the network more than once.
OneFetchPerUrl ==
    \A url \in DOMAIN fetches : fetches[url].tried <= 1

\* C17, amended: while the file of an image url is at its path, no fetch
\* of the url is made, and a resolution of the url yields that path.
NoFetchOnceStored ==
    [][\A url \in DOMAIN fetches :
          Filepath(url) \in DOMAIN files
              => /\ fetches'[url].tried = fetches[url].tried
                 /\ (InLoop /\ ImageAtHand = url /\ dl' # dl /\ pl_stage' = "image")
                       => dl'.downloaded = Append(dl.downloaded, Filepath(url))]_vars

\* an image url was fetched once and a later resolution reused its file
FileReused ==
    \E url \in DOMAIN fetches :
        /\ fetches[url].tried = 1
        /\ fetches[url].ok = 1
        /\ fetches[url].reused >= 1

\* C18: a record that leaves the MediaStore, unless the job is killed, goes
\* on to the RecordSink, and if it has image urls its local_images are the
\* paths of those that were found or fetched.
MediaStorePassesOn ==
    [][(pl_stage = "image" /\ pl_stage' \notin {"image", "closed"})
          => (/\ pl_stage' = "database"
              /\ HasValue(pl_item.fields, "images")
                    => (/\ "local_images" \in DOMAIN pl_item'.fields
                        /\ pl_item'.fields.local_images = dl.downloaded))]_vars

\* C19: unless a write is going on, every file under the download path
\* holds the complete content that was fetched for it.
MediaFilesComplete ==
    dl.pc # "write" => \A filepath \in DOMAIN files : files[filepath] = "complete"

\* C20: when the RecordSink has passed a record on, the database holds the
\* row of its natural key, and the title, content and counts of a Note's
\* row are the record's and its updated_at is the time of the upsert.
UpsertLeavesRow ==
    pl_stage = "json"
        => /\ NaturalKey(pl_item) \in DOMAIN db
           /\ pl_item.cls = "Note"
                 => LET row == db[NaturalKey(pl_item)]
                    IN  /\ row.title = pl_item.fields.title
                        /\ row.content = pl_item.fields.content
                        /\ row.likes_count = pl_item.fields.likes_count
                        /\ row.updated_at = clock - 1

\* C21: when the RecordSink does not pass a record on (and the job is not
\* killed), the record is dropped with the storage failure as its reason,
\* the database, the export file and the statistics are as they were, and
\* the job is ready for the next record.
StorageFailureIsDrop ==
    [][(pl_stage = "database" /\ pl_stage' \notin {"json", "closed"})
          => (/\ pl_stage' = "idle"
              /\ pl_outcome' = "dropped by database"
              /\ UNCHANGED <<db, exported, pstats>>)]_vars

\* C22: a line is added to the export file only for the record that has
\* passed the database, at the end of the file; the line is in the file
\* when the record goes on to the next pipeline, and the file starts empty
\* with the job.  So the file holds one line for each record that passed
\* the database, in their order, and none for a dropped record.
ExportFollowsPersistence ==
    /\ [](pl_stage = "statistics"
            => Len(exported) > 0 /\ exported[Len(exported)] = pl_item)
    /\ [][(exported' # exported)
            => \/ pl_stage = "json" /\ exported' = Append(exported, pl_item)
               \/ pl_stage = "closed" /\ exported' = <<>>]_vars
    /\ [][(pl_stage = "database" /\ pl_stage' \notin {"database", "idle", "closed"})
            => pl_stage' = "json"]_vars
    /\ [][(pl_stage = "json" /\ pl_stage' \notin {"json", "closed"})
            => exported' = Append(exported, pl_item)]_vars

\* the first record has its line, the second was dropped and has none
ExportedThenDropped ==
    /\ pl_stage = "idle"
    /\ yielded = 2
    /\ Len(exported) = 1
    /\ pl_outcome \in {"dropped by validation", "dropped as duplicate",
                       "dropped by database"}

\* the pipeline C24 says follows each pipeline
ClaimedSuccessor ==
    [validation |-> "duplication", duplication |-> "image", image |-> "database",
     database |-> "json", json |-> "statistics", statistics |-> "idle"]

\* C24: a record enters the pipeline at the Validator and goes from each
\* stage to the next of Validator, Deduplicator, MediaStore, database,
\* export, StatsAggregator, or leaves the pipeline; once it has left, no
\* stage has it.
PipelineOrder ==
    /\ [](pl_stage \in {"idle", "closed"} => pl_item = NoItem)
    /\ [][(pl_stage \in {"idle", "closed"} /\ pl_stage' \notin {"idle", "closed"})
            => pl_stage' = "validation"]_vars
    /\ [][(pl_stage \in DOMAIN ClaimedSuccessor)
            => (pl_stage' \in {pl_stage, ClaimedSuccessor[pl_stage], "idle", "closed"})]_vars

\* a record has been through every pipeline
RecordStored ==
    /\ pl_stage = "idle"
    /\ pl_outcome = "stored"
    /\ Len(exported) > 0

\* C23: each record dropped by the Validator or for a storage failure adds
\* one to the error count of the job, and a record dropped as a duplicate
\* leaves the error count as it is.
ErrorCountCountsDrops ==
    /\ [][(/\ pl_stage \in {"validation", "database"}
           /\ pl_outcome' \in {"dropped by validation", "dropped by database"}
           /\ pl_stage' = "idle")
             => pstats'.errors_count = pstats.errors_count + 1]_vars
    /\ [][(pl_stage = "duplication" /\ pl_stage' = "idle")
             => pstats'.errors_count = pstats.errors_count]_vars

\* C29: while stop(name) waits for a job that has not exited, the
\* supervisor can answer a status call and begin a start or a stop for
\* another name.
StopLeavesSupervisorFree ==
    (sup_pc = "join" /\ IsAlive(running_spiders[stop_name]))
        => /\ ENABLED GetAllSpidersStatus
           /\ \A name \in SpiderNames \ {stop_name} :
                 /\ ENABLED GetSpiderStatus(name)
                 /\ ENABLED StopSpiderBegin(name)
                 /\ ENABLED (\E max_pages \in MaxPagesInputs, spawn_ok \in BOOLEAN :
                                StartSpider(name, max_pages, spawn_ok))

----------------------------------------------------------------------------
(* Properties of the request path                                          *)

\* C25: HeadersMiddleware leaves every header the request came with at the
\* value it came with.
HeadersKeepPresentValues ==
    [][(mw_pc = "headers" /\ mw_pc' # "headers")
          => \A key \in DOMAIN mw_req.headers :
                /\ key \in DOMAIN mw_req'.headers
                /\ mw_req'.headers[key] = mw_req.headers[key]]_vars

\* C26: once CookiesMiddleware has seen a response with Set-Cookie for a
\* request, the store holds that cookie under the netloc of the request.
SetCookieStored ==
    [][(mw_pc = "response" /\ mw_resp.set_cookie # NoCookie /\ mw_pc' # "response")
          => (/\ Netloc(mw_req.url) \in DOMAIN cookies'
              /\ \E i \in DOMAIN cookies'[Netloc(mw_req.url)] :
                    cookies'[Netloc(mw_req.url)][i] = mw_resp.set_cookie)]_vars

\* the render predicate of C27: the url names the site
RenderWanted(url) == \E i \in DOMAIN url : url[i] = "xiaohongshu.com"

SetupFailureCountedFailed ==
    /\ [](mw_pc = "aborted" => sent = 0)
    /\ [][(mw_pc = "aborted" /\ mw_pc' = "exited after abort")
            => (/\ stats'.failed_runs = stats.failed_runs + 1
                /\ stats'.successful_runs = stats.successful_runs)]_vars

----------------------------------------------------------------------------
(* Properties of extract_number                                            *)

\* C30: extract_number returns an integer for every text, and 0 for a text
\* without a digit.
ExtractNumberTotal ==
    ex_pc = "done"
        => /\ ex_out.kind = "returned"
           /\ (\A i \in DOMAIN ex_text : ex_text[i] \notin DOMAIN DigitValue)
                 => ex_out.value = 0

----------------------------------------------------------------------------
(* Properties of the supervisor: independence of names, the run counters,  *)
(* restarting a name                                                        *)

\* the handle tracked under the name, NoPid if there is none
Handle(tracked, name) ==
    IF name \in DOMAIN tracked THEN tracked[name] ELSE NoPid

\* the job processes of the name that are alive
AliveJobs(ps, name) ==
    {pid \in DOMAIN ps : ps[pid].name = name /\ ps[pid].alive}

\* a step of job a: its start, its stop (both halves), its exit
StepOfJob(a) ==
    \/ \E max_pages \in MaxPagesInputs, spawn_ok \in BOOLEAN :
           StartSpider(a, max_pages, spawn_ok)
    \/ StopSpiderBegin(a)
    \/ (stop_name = a /\ StopSpiderFinish)
    \/ \E pid \in DOMAIN procs :
           /\ procs[pid].name = a
           /\ \/ \E ok \in BOOLEAN : JobFinish(pid, ok)
              \/ JobTerminated(pid)

\* C31: jobs under distinct names are independent: while a job a is alive, a
\* start(b) of a different name b that is not running, with valid
\* parameters and a fork that works, succeeds and tracks a live job of b;
\* and no start, stop or exit of job a changes the handle tracked under b or
\* which processes of b are alive.
DistinctNamesIndependent ==
    [][\A a \in SpiderNames : \A b \in SpiderNames \ {a} :
          /\ (TrackedAlive(a) /\ ~TrackedAlive(b) /\ StartSpider(b, 10, TRUE))
                 => /\ resp'.code = 200
                    /\ b \in DOMAIN running_spiders'
                    /\ procs'[running_spiders'[b]].alive
          /\ StepOfJob(a)
                 => /\ Handle(running_spiders', b) = Handle(running_spiders, b)
                    /\ AliveJobs(procs', b) = AliveJobs(procs, b)]_vars

\* every manager object there is: the server's, and the copy each job
\* process got at its fork
ManagerStats == {stats} \cup {procs[pid].stats : pid \in DOMAIN procs}

\* the counters of a manager add up and its last_run_status is set exactly
\* when a run was counted
CountersAddUp(st) ==
    /\ st.total_runs = st.successful_runs + st.failed_runs
    /\ (st.last_run_status \in {"success", "failed"}) <=> (st.total_runs > 0)
    /\ st.last_run_status \in {"success", "failed", "None"}

\* no counter of st is above its value in later
NotDecreased(st, later) ==
    /\ st.total_runs <= later.total_runs
    /\ st.successful_runs <= later.successful_runs
    /\ st.failed_runs <= later.failed_runs

\* C38: in every state, between the calls of run_spider, the counters of
\* every manager satisfy total_runs = successful_runs + failed_runs and
\* last_run_status is 'success' or 'failed' exactly when total_runs > 0; no
\* step decreases a counter; and a run that finishes leaves last_run_status
\* at its own outcome.
RunCountersConsistent ==
    /\ [](\A st \in ManagerStats : CountersAddUp(st))
    /\ [][/\ NotDecreased(stats, stats')
          /\ \A pid \in DOMAIN procs :
                /\ NotDecreased(procs[pid].stats, procs'[pid].stats)
                /\ \A ok \in BOOLEAN :
                      JobFinish(pid, ok)
                          => procs'[pid].stats.last_run_status =
                                 (IF ok THEN "success" ELSE "failed")]_vars

\* a job's run raised and its manager counted one failed run
FailedRunCounted ==
    \E pid \in DOMAIN procs :
        /\ procs[pid].ended = "failed"
        /\ procs[pid].stats.total_runs = 1
        /\ procs[pid].stats.failed_runs = 1
        /\ procs[pid].stats.last_run_status = "failed"

\* C39: start(name) answers AlreadyRunning only while the handle tracked
\* under name is alive: a start(name) that finds no live tracked job (the
\* job exited by itself, was stopped, or never ran) is not answered
\* AlreadyRunning, and with the supported name, max_pages in 1..100 and a
\* fork that works it answers 200 and tracks a new, live process in place
\* of whatever handle was tracked.
RestartAfterEnd ==
    [][\A name \in SpiderNames, max_pages \in MaxPagesInputs, spawn_ok \in BOOLEAN :
          (~TrackedAlive(name) /\ StartSpider(name, max_pages, spawn_ok))
              => /\ resp'.detail # "AlreadyRunning"
                 /\ (name = "xiaohongshu" /\ max_pages \in 1 .. 100 /\ spawn_ok)
                        => /\ resp'.code = 200
                           /\ name \in DOMAIN running_spiders'
                           /\ running_spiders'[name] \notin DOMAIN procs
                           /\ running_spiders'[name] = resp'.pid
                           /\ procs'[running_spiders'[name]].alive
                           /\ procs'[running_spiders'[name]].name = name]_vars

\* a start was answered 200 for a name whose earlier job had exited by
\* itself, and the new process is the one tracked
RestartedAfterExit ==
    /\ resp.op = "start"
    /\ resp.code = 200
    /\ running_spiders[resp.spider] = resp.pid
    /\ \E pid \in DOMAIN procs :
          /\ pid < resp.pid
          /\ procs[pid].name = resp.spider
          /\ procs[pid].ended \in {"completed", "failed"}

\* a start was answered 200 for a name whose earlier job had been stopped
RestartedAfterStop ==
    /\ resp.op = "start"
    /\ resp.code = 200
    /\ \E pid \in DOMAIN procs :
          /\ pid < resp.pid
          /\ procs[pid].name = resp.spider
          /\ procs[pid].ended \in {"stopped", "killed"}

----------------------------------------------------------------------------
(* Properties of the Deduplicator: the lifetime of a key, the two stores   *)

\* the items whose DedupKey is the item's
SameDedupKey(item) ==
    {j \in Items : GenerateItemId(j.fields) = GenerateItemId(item.fields)}

\* no job process is in the middle of admitting a record with the item's
\* DedupKey
NotBeingAdmitted(item) ==
    \A q \in Jobs :
        cur[q] = NoItem \/ GenerateItemId(cur[q].fields) # GenerateItemId(item.fields)

\* C33: an admitted DedupKey has a finite lifetime: when the TTL has passed
\* since a key was admitted, the key was admitted that once only, and no
\* other record holds the key, the key is no longer reported as seen to any
\* job, whether Redis or the process's own set answers, whatever other
\* keys were admitted in between.
KeyLifetimeIsTtl ==
    [][\A item \in Items :
          ( /\ age[NaturalKey(item)] # NoAge
            /\ age'[NaturalKey(item)] = NoAge
            /\ admitted[NaturalKey(item)] = 1
            /\ \A j \in SameDedupKey(item) : age'[NaturalKey(j)] = NoAge
            /\ NotBeingAdmitted(item) )
              => \A p \in Jobs, redis_ok \in BOOLEAN :
                    ~IsDuplicate(p, GenerateItemId(item.fields), redis_ok)']_vars

\* C37: within one job and the TTL window of a key, a key that is in the
\* job's own set but not in the Redis set (the SADD or the EXPIRE raised
\* when it was admitted) is still reported as a duplicate by a membership
\* test that Redis answers.
LocalOnlyKeyStaysDuplicate ==
    [][\A p \in Jobs, item \in Items :
          ( /\ GenerateItemId(item.fields) \in seen_items[p]
            /\ GenerateItemId(item.fields) \notin redis_set
            /\ age[NaturalKey(item)] # NoAge
            /\ ProcessItem(p, item, TRUE) )
              => outcome'[p] = "duplicate"]_vars

----------------------------------------------------------------------------
(* Properties of the item pipeline: url fields, upserts, seen keys         *)

\* the url-typed fields of C32
UrlFields == {"url", "profile_url", "avatar_url", "author_avatar", "video_url"}

\* C32: no record with a url-typed field (url, profile_url, avatar_url,
\* author_avatar, video_url) that is set and is not a url with a scheme and
\* a host is in a pipeline after the Validator.
MalformedUrlNeverPasses ==
    pl_stage \in LaterPipelines
        => \A key \in UrlFields \cap DOMAIN pl_item.fields :
               Truthy(key, pl_item.fields[key]) => IsValidUrl(pl_item.fields[key])

\* the columns of xiaohongshu_notes that C34 says an upsert leaves alone
KeptColumns ==
    {"url", "keyword", "author_name", "author_id", "author_avatar", "images", "tags",
     "crawl_time", "note_type", "location", "quality_score", "is_featured"}

\* the columns C34 says an upsert writes
MutableColumns == {"title", "content", "likes_count", "comments_count", "shares_count"}

\* C34: when the RecordSink upserts a Note whose note_id has a row, the
\* row's title, content and three counts become the record's and its
\* updated_at the time of the upsert, every other column keeps the value of
\* the first insert, every other row is as it was, and upserting the same
\* record again leaves the row as it is apart from updated_at.
UpsertKeepsOtherColumns ==
    [][( /\ pl_stage = "database"
         /\ pl_stage' = "json"
         /\ pl_item.cls = "Note"
         /\ NaturalKey(pl_item) \in DOMAIN db )
          => LET key == NaturalKey(pl_item)
                 again == InsertNote(db', pl_item.fields, clock')
             IN  /\ DOMAIN db' = DOMAIN db
                 /\ \A k \in DOMAIN db \ {key} : db'[k] = db[k]
                 /\ \A col \in KeptColumns : db'[key][col] = db[key][col]
                 /\ \A col \in MutableColumns :
                       db'[key][col] = NoteRow(pl_item.fields, clock)[col]
                 /\ db'[key].updated_at = clock
                 /\ DOMAIN db'[key] = KeptColumns \cup MutableColumns \cup {"updated_at"}
                 /\ \A col \in KeptColumns \cup MutableColumns :
                       again[key][col] = db'[key][col]]_vars

\* a Note was upserted over the row of another record of its note_id: the
\* row has the record's title and the first record's url
UpsertedOverFirst ==
    /\ pl_stage = "json"
    /\ pl_item.cls = "Note"
    /\ NaturalKey(pl_item) \in DOMAIN db
    /\ db[NaturalKey(pl_item)].title = pl_item.fields.title
    /\ db[NaturalKey(pl_item)].url # pl_item.fields.url
    /\ db[NaturalKey(pl_item)].is_featured # pl_item.fields.is_featured

----------------------------------------------------------------------------
(* Properties of the proxy pool                                            *)

\* C35: once the pool is loaded no step changes it, whatever exceptions
\* come for requests sent through a proxy; every member of the pool,
\* failed or not, is a proxy get_random_proxy may return for the next
\* request; and process_exception returns None and leaves the request as
\* it is, so the request fails with its exception: it is neither reissued
\* nor answered by the hook.
ProxyPoolFixed ==
    /\ [](px_pc \notin {"unbuilt", "not configured"}
             => \A i \in DOMAIN proxies : proxies[i] \in GetRandomProxy(proxies))
    /\ [][/\ px_pc # "unbuilt" => proxies' = proxies
          /\ px_pc = "exception"
                => /\ px_ret' = "None"
                   /\ px_meta' = px_meta
                   /\ px_sent' = px_sent
                   /\ px_pc' = "failed"]_vars

\* a request is sent through a proxy for which a failure was logged, in a
\* pool of more than one proxy
FailedProxyChosenAgain ==
    /\ px_pc = "downloading"
    /\ px_meta \in px_failed
    /\ Len(proxies) > 1

----------------------------------------------------------------------------
(* Properties of the item pipeline: seen keys and persisted records        *)

\* C36: a key is recorded as seen only for a record that was persisted: a
\* Note that the Deduplicator drops as a duplicate has a row in the
\* database.  So a Note that was admitted and then lost in a later
\* pipeline, or whose job was killed before the database was reached, is
\* admitted again when it is submitted again.
SeenKeyIsPersisted ==
    [][( /\ pl_stage = "duplication"
         /\ pl_item.cls = "Note"
         /\ pl_stage' = "idle"
         /\ pl_outcome' = "dropped as duplicate" )
          => NaturalKey(pl_item) \in DOMAIN db]_vars

====
